---- MODULE Spec2Model ----
(***************************************************************************)
(* Model of the MySky main frame (SkynetHQ/skynet-mysky): the permission-  *)
(* gated signing gateway, the permissions provider life cycle, the storage *)
(* event listener, the auto-relogin request interceptor and logout.        *)
(*                                                                         *)
(* The program modelled is the MySky class of src/unnamed/part_001, lines  *)
(* 1-697, together with the portal account calls of                        *)
(* src/src/portal_account.ts.                                              *)
(*                                                                         *)
(* JavaScript runs one task at a time: a handler runs from the event that  *)
(* resumes it (a worker message, a portal reply, a storage event, a call   *)
(* from the parent) up to its next wait for such an event.  Each action    *)
(* below is one such run.                                                  *)
(***************************************************************************)
EXTENDS Integers, Sequences, FiniteSets, TLC

\* ------------------------------------------------------------------ bounds
NCalls == 2          \* gateway calls the parent makes
MaxProviders == 2    \* permissions providers launched in one run
MaxWrites == 1       \* writes of the seed key by the MySky UI
MaxReq == 5          \* requests answered by the portal in one run
NAttempts == 2       \* login and register attempts made one after the other
NSamples == 4        \* random values a cell of the seed words is drawn from
NDisplays == 2       \* runs of runSeedProviderDisplay in one UI window
MaxSeeds == 1        \* times the seed page sets readySeed before it is gone

\* ------------------------------------------------------------- value sets
Null == "null"
Seeds == {"S1", "S2"}
Unparseable == "unparseable"       \* a stored value JSON.parse rejects
BadLength == "badlength"           \* a stored array of another length than SEED_LENGTH
Malformed == {Unparseable, BadLength}
Empty == "empty"                   \* the seed key holds the empty string
Emails == {"E1"}
Paths == {"p1"}
CallIds == 1 .. NCalls
ProvIds == 1 .. MaxProviders

\* PermCategory and PermType of skynet-mysky-utils, as used by the gateway.
Discoverable == "Discoverable"
Hidden == "Hidden"
Read == "Read"
Write == "Write"

\* new Permission(referrerDomain, path, category, permType); the referrer
\* domain is fixed for the life of the frame.
Permission(path, category, permType) ==
  [path |-> path, category |-> category, permType |-> permType]

NoPerm == [path |-> Null, category |-> Null, permType |-> Null]

\* A permission the provider may name in its answer although it was not asked.
OtherPerm == Permission("other", Hidden, Write)

\* ------------------------------------------------------ derivation (pure)
\* Key and path-seed derivation are kept symbolic: a derived value is the
\* tuple of what it was derived from, so that two values are equal exactly
\* when they were derived from the same inputs.
genKeyPairFromSeed(seed) == <<"keypair", seed>>
PathSeed(seed, path, isDirectory) == <<"pathseed", seed, path, isDirectory>>
deriveDiscoverableFileTweak(path) == <<"tweak", "discoverable", path>>
deriveEncryptedFileTweak(pathSeed) == <<"tweak", "encrypted", pathSeed>>
signEntry(seed, dataKey) == <<"entrysig", genKeyPairFromSeed(seed), dataKey>>
genPortalLoginKeypair(seed, tweak) == <<"portalkey", seed, tweak>>
\* The two halves of a key pair.
PublicKey(keyPair) == <<"public", keyPair>>
PrivateKey(keyPair) == <<"private", keyPair>>

\* The data keys a registry entry handed in by the parent may carry.
DataKeys ==
  { deriveDiscoverableFileTweak("p1"),
    deriveEncryptedFileTweak(PathSeed("S1", "p1", FALSE)) }

\* ------------------------------------------------------------------ state
VARIABLES
  storedSeed,              \* localStorage[SEED_STORAGE_KEY]: Null, a seed or a malformed value
  storedEmail,             \* localStorage[EMAIL_STORAGE_KEY]: Null or an email
  phase,                   \* MySky.initialize: "start", "settings", "ready", "failed"
  permissionsProvider,     \* this.permissionsProvider: Null or a provider id
  providers,               \* provider id -> handshake state, close requested, closed
  events,                  \* storage events not yet delivered (their newValue)
  writes,                  \* number of writes of the seed key by the UI
  calls,                   \* call id -> the gateway call of the parent
  clientExec,              \* this.client.executeRequest: the wrapper layers around the original
  originalExecuteRequest,  \* this.originalExecuteRequest: Null or the saved function
  threads,                 \* "app", "logout": an operation waiting for the portal
  portal,                  \* requests the portal received, in order
  setupErrors,             \* times setupAutoRelogin threw 'already being set up'
  attempts,                \* attempt id -> a login or register attempt at the portal
  host,                    \* what the browser offers: web storage, none that works, or no Storage at all
  codec,                   \* the seed page: the last call of the phrase codec, its input and result
  display,                 \* display id -> a run of runSeedProviderDisplay in the MySky UI
  seedPage                 \* the seed page: readySeed, the phrase it came from, getRootSeed's promise

vars == <<storedSeed, storedEmail, phase, permissionsProvider, providers, events,
          writes, calls, clientExec, originalExecuteRequest, threads, portal,
          setupErrors, attempts, host, codec, display, seedPage>>

\* ---------------------------------------------------------------- storage
\* The browsers the frame may run in: one with web storage; one where
\* `localStorage` is null (storage disabled); one where `Storage` is undefined
\* and `localStorage` with it.
HostStorage == "storage"
HostDisabled == "disabled"
HostUnsupported == "unsupported"

\* checkStoredSeed(): the seed it returns, {} for null.  Without localStorage,
\* for an absent key and for the empty string (`!seedStr`) it returns null
\* at once; a value that does not parse to SEED_LENGTH bytes gives null.
CheckStoredSeed(stored) ==
  IF host # HostStorage THEN {}
  ELSE IF stored \in {Null, Empty} THEN {}
  ELSE IF stored \in Seeds THEN {stored} ELSE {}

\* checkStoredSeed(): the seed key after the call; clearStoredSeed runs in the
\* catch block only, for a value that did not parse or had another length.
StorageAfterCheck(stored) ==
  IF host # HostStorage THEN stored
  ELSE IF stored \in {Null, Empty} THEN stored
  ELSE IF stored \in Malformed THEN Null ELSE stored

\* clearStoredSeed() leaving the seed where it is.
ClearedSeed_kept == "S1"

\* clearStoredSeed(): localStorage.removeItem(SEED_STORAGE_KEY).
ClearedSeed == Null

\* -------------------------------------------------------------- providers
Unlaunched == {p \in ProvIds : providers[p].hs = "none"}

\* launchPermissionsProvider(seed): a new worker and a pending handshake; the
\* promise is what this.permissionsProvider holds.
LaunchedProviders(p, seed) ==
  [providers EXCEPT ![p] = [hs |-> "pending", seed |-> seed,
                            closeReq |-> FALSE, closed |-> FALSE]]

\* ----------------------------------------------------------- auto-relogin
\* A request function is the sequence of wrapper layers around the client's
\* original executeRequest, outermost first; <<>> is the original.  A layer
\* holds the seed and email its closure captured.
Layer(seed, email) == [seed |-> seed, email |-> email]

\* setupAutoRelogin: if (this.originalExecuteRequest) throw ...
AlreadySetUp_never == FALSE

AlreadySetUp == originalExecuteRequest # {}

\* setupAutoRelogin(seed, email), as a step of the handler that calls it.
SetupAutoRelogin(seed, email) ==
  IF AlreadySetUp
  THEN /\ setupErrors' = setupErrors + 1
       /\ UNCHANGED <<clientExec, originalExecuteRequest>>
  ELSE /\ originalExecuteRequest' = {clientExec}
       /\ clientExec' = <<Layer(seed, email)>> \o clientExec
       /\ UNCHANGED setupErrors

\* ------------------------------------------------------------- initialize
\* MySky.initialize up to `await mySky.setPreferredPortalAndStoredEmail(seed)`.
InitializeStart ==
  /\ phase = "start"
  /\ storedSeed' = StorageAfterCheck(storedSeed)
  /\ IF host = HostUnsupported
     THEN /\ phase' = "failed"
          /\ UNCHANGED <<providers, permissionsProvider>>
     ELSE IF CheckStoredSeed(storedSeed) # {}
     THEN \E p \in Unlaunched :
            /\ p = CHOOSE q \in Unlaunched : \A r \in Unlaunched : q <= r
            /\ providers' = LaunchedProviders(p, storedSeed)
            /\ permissionsProvider' = {p}
            /\ phase' = "settings"
     ELSE /\ phase' = "ready"
          /\ UNCHANGED <<providers, permissionsProvider>>
  /\ UNCHANGED <<storedEmail, events, writes, calls, clientExec,
                 originalExecuteRequest, threads, portal, setupErrors>>
  /\ UNCHANGED <<attempts, host, codec, display, seedPage>>

\* setPreferredPortalAndStoredEmail(seed) returned: the user settings were read
\* through the provider launched above (getUserSettings -> getJSONEncrypted ->
\* getEncryptedPathSeed), `email` is what they held; then the storage listener
\* is set up and the parent connected.
InitializeSettings(email) ==
  /\ phase = "settings"
  /\ \E p \in permissionsProvider : providers[p].hs = "ready"
  /\ phase' = "ready"
  /\ IF email # Null
     THEN SetupAutoRelogin(CHOOSE s \in Seeds : \E p \in permissionsProvider : providers[p].seed = s, email)
     ELSE UNCHANGED <<clientExec, originalExecuteRequest, setupErrors>>
  /\ UNCHANGED <<storedSeed, storedEmail, permissionsProvider, providers, events,
                 writes, calls, threads, portal>>
  /\ UNCHANGED <<attempts, host, codec, display, seedPage>>

\* Reading the user settings threw (handshake failed, permission denied, seed
\* gone, portal error): initialize rejects and no MySky object exists.
InitializeFails ==
  /\ phase = "settings"
  /\ \E p \in permissionsProvider : providers[p].hs \in {"ready", "failed"}
  /\ phase' = "failed"
  /\ UNCHANGED <<storedSeed, storedEmail, permissionsProvider, providers, events,
                 writes, calls, clientExec, originalExecuteRequest, threads,
                 portal, setupErrors>>
  /\ UNCHANGED <<attempts, host, codec, display, seedPage>>

\* ---------------------------------------------------------- gateway calls
\* What a call did, in order: "sent" and "answer" (a checkPermissions request
\* and the provider's answer to it), "readSeed" (checkStoredSeed returned a
\* seed), "pathSeed", "keyPair" (derivations) and "sign".
Event(ev, perm, failed) == [ev |-> ev, perm |-> perm, failed |-> failed]

IdleCall ==
  [op |-> Null, path |-> Null, isDirectory |-> FALSE, dataKey |-> <<>>,
   pc |-> "idle", perm |-> NoPerm, prov |-> {}, log |-> <<>>,
   status |-> "none", error |-> Null, value |-> <<>>, grantedBefore |-> {},
   startedWith |-> <<>>, waitedFor |-> {}, sentTo |-> <<>>]

\* A call as the parent makes it.
NewCall(op, path, isDirectory, dataKey) ==
  LET \* the permissions the provider has granted, by its answers so far
      GrantedSoFar ==
        UNION { { calls[d].log[i].perm :
                    i \in {j \in 1 .. Len(calls[d].log) :
                              calls[d].log[j].ev = "answer" /\ calls[d].log[j].failed = {}} } :
                d \in CallIds }
  IN  [IdleCall EXCEPT !.op = op, !.path = path, !.isDirectory = isDirectory,
                       !.dataKey = dataKey, !.grantedBefore = GrantedSoFar]

Logged(call, ev) == [call EXCEPT !.log = Append(@, Event(ev, NoPerm, {}))]

Thrown(call, error) == [call EXCEPT !.pc = "done", !.status = "error", !.error = error]

Returned(call, value) == [call EXCEPT !.pc = "done", !.status = "ok", !.value = value]

\* provider.connection.remoteHandle().call("checkPermissions", [perm], dev),
\* on the provider the awaited promise resolved to.
SentCheck(call) ==
  [call EXCEPT !.pc = "awaitAnswer",
               !.sentTo = Append(@, call.prov),
               !.log = Append(@, Event("sent", call.perm, {}))]

\* checkPermission(path, category, permType) up to its first wait: the check
\* for a loaded provider and `await this.permissionsProvider`.
CheckPermissionStart(call, perm) ==
  IF permissionsProvider = {}
  THEN Thrown(call, "Permissions provider not loaded")
  ELSE LET p == CHOOSE q \in permissionsProvider : TRUE
           c1 == [call EXCEPT !.perm = perm, !.prov = {p},
                              !.startedWith = Append(@, permissionsProvider)]
       IN  IF providers[p].hs = "ready" THEN SentCheck(c1)
           ELSE IF providers[p].hs = "failed" THEN Thrown(c1, "Handshake failed")
           ELSE [c1 EXCEPT !.pc = "awaitProvider", !.waitedFor = @ \cup {p}]

\* checkPermission: if (resp.failedPermissions.length > 0) throw ...
PermissionFailed_never(c, failed) == FALSE

PermissionFailed_cached(c, failed) ==
  /\ failed # {}
  /\ ~ \E d \in CallIds \ {c} : \E i \in 1 .. Len(calls[d].log) :
         /\ calls[d].log[i].ev = "answer"
         /\ calls[d].log[i].perm = calls[c].perm
         /\ calls[d].log[i].failed = {}

PermissionFailed(c, failed) == failed # {}

\* entry.dataKey !== dataKey
DataKeyMatches_always(entryKey, tweak) == TRUE

DataKeyMatches(entryKey, tweak) == entryKey = tweak

\* signRegistryEntryHelper signing with whatever the seed key gave.
HelperAfterCheck_seedUnchecked(call, stored) ==
  Returned(Logged(Logged(Logged(call, "readSeed"), "keyPair"), "sign"),
           signEntry(stored, call.dataKey))

\* signRegistryEntryHelper after its checkPermission returned.
HelperAfterCheck(call, stored) ==
  IF CheckStoredSeed(stored) = {}
  THEN Thrown(call, "User seed not found")
  ELSE Returned(Logged(Logged(Logged(call, "readSeed"), "keyPair"), "sign"),
                signEntry(stored, call.dataKey))

\* getEncryptedPathSeed after its checkPermission returned; what it returns is
\* passed on to signEncryptedRegistryEntry when that is the caller.
PathSeedAfterCheck(call, stored) ==
  IF CheckStoredSeed(stored) = {}
  THEN Thrown(call, "User seed not found")
  ELSE LET c1 == Logged(Logged(call, "readSeed"), "pathSeed")
           pathSeed == PathSeed(stored, call.path, call.isDirectory)
       IN  IF call.op = "getEncryptedPathSeed" THEN Returned(c1, pathSeed)
           ELSE \* signEncryptedRegistryEntry, after `await this.getEncryptedPathSeed`
             IF ~ DataKeyMatches(call.dataKey, deriveEncryptedFileTweak(pathSeed))
             THEN Thrown(c1, "Path does not match the data key")
             ELSE CheckPermissionStart(c1, Permission(call.path, Hidden, Write))

\* Call ids number the parent's calls in the order they arrive.
NextCall(c) ==
  /\ calls[c].pc = "idle"
  /\ \A d \in CallIds : d < c => calls[d].pc # "idle"

\* getEncryptedPathSeed without its checkPermission call.
GetEncryptedPathSeedCall_unchecked(c, path, isDirectory) ==
  /\ phase = "ready"
  /\ NextCall(c)
  /\ storedSeed' = StorageAfterCheck(storedSeed)
  /\ calls' = [calls EXCEPT ![c] =
       PathSeedAfterCheck(NewCall("getEncryptedPathSeed", path, isDirectory, <<>>), storedSeed)]
  /\ UNCHANGED <<storedEmail, phase, permissionsProvider, providers, events,
                 writes, clientExec, originalExecuteRequest, threads, portal, setupErrors>>
  /\ UNCHANGED <<attempts, host, codec, display, seedPage>>

\* The parent calls getEncryptedPathSeed(path, isDirectory).
GetEncryptedPathSeedCall(c, path, isDirectory) ==
  /\ phase = "ready"
  /\ NextCall(c)
  /\ calls' = [calls EXCEPT ![c] =
       CheckPermissionStart(NewCall("getEncryptedPathSeed", path, isDirectory, <<>>),
                            Permission(path, Hidden, Read))]
  /\ UNCHANGED <<storedSeed, storedEmail, phase, permissionsProvider, providers, events,
                 writes, clientExec, originalExecuteRequest, threads, portal, setupErrors>>
  /\ UNCHANGED <<attempts, host, codec, display, seedPage>>

\* The parent calls signRegistryEntry(entry, path).
SignRegistryEntryCall(c, dataKey, path) ==
  /\ phase = "ready"
  /\ NextCall(c)
  /\ LET c0 == NewCall("signRegistryEntry", path, FALSE, dataKey)
     IN  calls' = [calls EXCEPT ![c] =
           IF ~ DataKeyMatches(dataKey, deriveDiscoverableFileTweak(path))
           THEN Thrown(c0, "Path does not match the data key")
           ELSE CheckPermissionStart(c0, Permission(path, Discoverable, Write))]
  /\ UNCHANGED <<storedSeed, storedEmail, phase, permissionsProvider, providers, events,
                 writes, clientExec, originalExecuteRequest, threads, portal, setupErrors>>
  /\ UNCHANGED <<attempts, host, codec, display, seedPage>>

\* The parent calls signEncryptedRegistryEntry(entry, path): it starts with
\* getEncryptedPathSeed(path, false).
SignEncryptedRegistryEntryCall(c, dataKey, path) ==
  /\ phase = "ready"
  /\ NextCall(c)
  /\ calls' = [calls EXCEPT ![c] =
       CheckPermissionStart(NewCall("signEncryptedRegistryEntry", path, FALSE, dataKey),
                            Permission(path, Hidden, Read))]
  /\ UNCHANGED <<storedSeed, storedEmail, phase, permissionsProvider, providers, events,
                 writes, clientExec, originalExecuteRequest, threads, portal, setupErrors>>
  /\ UNCHANGED <<attempts, host, codec, display, seedPage>>

\* checkLogin without its check of the stored seed.
CheckLoginCall_seedUnchecked(c, perm) ==
  /\ phase = "ready"
  /\ NextCall(c)
  /\ storedSeed' = StorageAfterCheck(storedSeed)
  /\ calls' = [calls EXCEPT ![c] =
       CheckPermissionStart(NewCall("checkLogin", perm.path, FALSE, <<>>), perm)]
  /\ UNCHANGED <<storedEmail, phase, permissionsProvider, providers, events,
                 writes, clientExec, originalExecuteRequest, threads, portal, setupErrors>>
  /\ UNCHANGED <<attempts, host, codec, display, seedPage>>

\* The parent calls checkLogin(perms): without a stored seed it answers at
\* once that every permission failed; otherwise it asks the provider and
\* returns the provider's answer as it is.
CheckLoginCall(c, perm) ==
  /\ phase = "ready"
  /\ NextCall(c)
  /\ storedSeed' = StorageAfterCheck(storedSeed)
  /\ LET c0 == NewCall("checkLogin", perm.path, FALSE, <<>>)
     IN  calls' = [calls EXCEPT ![c] =
           IF CheckStoredSeed(storedSeed) = {}
           THEN Returned(c0, <<FALSE, {perm}>>)
           ELSE CheckPermissionStart(c0, perm)]
  /\ UNCHANGED <<storedEmail, phase, permissionsProvider, providers, events,
                 writes, clientExec, originalExecuteRequest, threads, portal, setupErrors>>
  /\ UNCHANGED <<attempts, host, codec, display, seedPage>>

\* The parent calls signMessage(message): no wait, no permission check.
SignMessageCall(c) ==
  /\ phase = "ready"
  /\ NextCall(c)
  /\ storedSeed' = StorageAfterCheck(storedSeed)
  /\ LET c0 == NewCall("signMessage", Null, FALSE, <<>>)
     IN  calls' = [calls EXCEPT ![c] =
           IF CheckStoredSeed(storedSeed) = {}
           THEN Thrown(c0, "User seed not found")
           ELSE Returned(Logged(Logged(Logged(c0, "readSeed"), "keyPair"), "sign"),
                         <<"msgsig", genKeyPairFromSeed(storedSeed), "MYSKY_ID_VERIFICATION">>)]
  /\ UNCHANGED <<storedEmail, phase, permissionsProvider, providers, events,
                 writes, clientExec, originalExecuteRequest, threads, portal, setupErrors>>
  /\ UNCHANGED <<attempts, host, codec, display, seedPage>>

\* The parent calls userID(): no wait, no permission check.
UserIDCall(c) ==
  /\ phase = "ready"
  /\ NextCall(c)
  /\ storedSeed' = StorageAfterCheck(storedSeed)
  /\ LET c0 == NewCall("userID", Null, FALSE, <<>>)
     IN  calls' = [calls EXCEPT ![c] =
           IF CheckStoredSeed(storedSeed) = {}
           THEN Thrown(c0, "User seed not found")
           ELSE Returned(Logged(Logged(c0, "readSeed"), "keyPair"),
                         PublicKey(genKeyPairFromSeed(storedSeed)))]
  /\ UNCHANGED <<storedEmail, phase, permissionsProvider, providers, events,
                 writes, clientExec, originalExecuteRequest, threads, portal, setupErrors>>
  /\ UNCHANGED <<attempts, host, codec, display, seedPage>>

\* The provider answers call c's checkPermissions request with the given
\* failedPermissions; checkPermission and its caller run on to the next wait.
ProviderAnswer(c, failed) ==
  /\ calls[c].pc = "awaitAnswer"
  /\ \A p \in calls[c].prov : ~ providers[p].closed
  /\ LET c1 == [calls[c] EXCEPT !.log = Append(@, Event("answer", calls[c].perm, failed))]
     IN  IF calls[c].op = "checkLogin"
         THEN /\ calls' = [calls EXCEPT ![c] = Returned(c1, <<TRUE, failed>>)]
              /\ UNCHANGED storedSeed
         ELSE IF PermissionFailed(c, failed)
         THEN /\ calls' = [calls EXCEPT ![c] = Thrown(c1, "Permission was not granted")]
              /\ UNCHANGED storedSeed
         ELSE \* the code after checkPermission returned without throwing
              /\ calls' = [calls EXCEPT ![c] = IF c1.perm.permType = Read
                                               THEN PathSeedAfterCheck(c1, storedSeed)
                                               ELSE HelperAfterCheck(c1, storedSeed)]
              /\ storedSeed' = StorageAfterCheck(storedSeed)
  /\ UNCHANGED <<storedEmail, phase, permissionsProvider, providers, events,
                 writes, clientExec, originalExecuteRequest, threads, portal, setupErrors>>
  /\ UNCHANGED <<attempts, host, codec, display, seedPage>>

\* The handshake with provider p completes: every call waiting for it sends its
\* request, then the close requested meanwhile (if any) runs.
HandshakeDone(p) ==
  /\ providers[p].hs = "pending"
  /\ providers' = [providers EXCEPT ![p].hs = "ready", ![p].closed = providers[p].closeReq]
  /\ calls' = [c \in CallIds |->
       IF calls[c].pc = "awaitProvider" /\ calls[c].prov = {p}
       THEN SentCheck(calls[c]) ELSE calls[c]]
  /\ UNCHANGED <<storedSeed, storedEmail, phase, permissionsProvider, events,
                 writes, clientExec, originalExecuteRequest, threads, portal, setupErrors>>
  /\ UNCHANGED <<attempts, host, codec, display, seedPage>>

\* The failure of the handshake reaches only the first of the waiting calls.
HandshakeFails_first(p) ==
  /\ providers[p].hs = "pending"
  /\ providers' = [providers EXCEPT ![p].hs = "failed"]
  /\ calls' = [c \in CallIds |->
       IF /\ calls[c].pc = "awaitProvider" /\ calls[c].prov = {p}
          /\ \A d \in CallIds : (calls[d].pc = "awaitProvider" /\ calls[d].prov = {p}) => c <= d
       THEN Thrown(calls[c], "Handshake failed") ELSE calls[c]]
  /\ UNCHANGED <<storedSeed, storedEmail, phase, permissionsProvider, events,
                 writes, clientExec, originalExecuteRequest, threads, portal, setupErrors>>
  /\ UNCHANGED <<attempts, host, codec, display, seedPage>>

\* The handshake with provider p fails (ParentHandshake ran out of attempts).
HandshakeFails(p) ==
  /\ providers[p].hs = "pending"
  /\ providers' = [providers EXCEPT ![p].hs = "failed"]
  /\ calls' = [c \in CallIds |->
       IF calls[c].pc = "awaitProvider" /\ calls[c].prov = {p}
       THEN Thrown(calls[c], "Handshake failed") ELSE calls[c]]
  /\ UNCHANGED <<storedSeed, storedEmail, phase, permissionsProvider, events,
                 writes, clientExec, originalExecuteRequest, threads, portal, setupErrors>>
  /\ UNCHANGED <<attempts, host, codec, display, seedPage>>

\* ------------------------------------------------- storage event listener
\* The MySky UI (another document of the same origin) writes or removes the
\* seed key, and may have left the email beside it; the main frame gets a
\* storage event once its listener is set up.
UIWrite(newValue, email) ==
  /\ host = HostStorage
  /\ writes < MaxWrites
  /\ newValue # storedSeed
  /\ writes' = writes + 1
  /\ storedSeed' = newValue
  /\ storedEmail' = email
  /\ events' = IF phase = "ready" THEN Append(events, newValue) ELSE events
  /\ UNCHANGED <<phase, permissionsProvider, providers, calls, clientExec,
                 originalExecuteRequest, threads, portal, setupErrors>>
  /\ UNCHANGED <<attempts, host, codec, display, seedPage>>

\* The listener of setUpStorageEventListener, for an event of the seed key.
StorageEvent ==
  /\ phase = "ready"
  /\ events # <<>>
  /\ events' = Tail(events)
  /\ LET newValue == Head(events)
         \* void this.permissionsProvider.then((provider) => provider.close()): close
         \* runs at once when the handshake is done, after it when it is pending, and
         \* never when it failed.
         CloseRequested(provs, p) ==
           IF provs[p].hs = "ready" THEN [provs EXCEPT ![p].closed = TRUE]
           ELSE IF provs[p].hs = "pending" THEN [provs EXCEPT ![p].closeReq = TRUE]
           ELSE provs
         retired == IF permissionsProvider = {} THEN providers
                    ELSE CloseRequested(providers, CHOOSE p \in permissionsProvider : TRUE)
     IN  IF newValue = Null \/ newValue = Unparseable
         THEN \* seed removed, or JSON.parse(newValue) throws
              /\ permissionsProvider' = {}
              /\ providers' = retired
              /\ UNCHANGED <<storedEmail, clientExec, originalExecuteRequest, setupErrors>>
         ELSE \E p \in Unlaunched :
              /\ p = CHOOSE q \in Unlaunched : \A r \in Unlaunched : q <= r
              /\ providers' = [retired EXCEPT ![p] = LaunchedProviders(p, newValue)[p]]
              /\ permissionsProvider' = {p}
              /\ IF storedEmail # Null
                 THEN /\ storedEmail' = Null
                      /\ SetupAutoRelogin(newValue, storedEmail)
                 ELSE UNCHANGED <<storedEmail, clientExec, originalExecuteRequest, setupErrors>>
  /\ UNCHANGED <<storedSeed, phase, writes, calls, threads, portal>>
  /\ UNCHANGED <<attempts, host, codec, display, seedPage>>

\* ------------------------------------------------------- portal requests
Cfg(kind, pubKey) == [kind |-> kind, pubKey |-> pubKey]
NoCfg == Cfg(Null, <<>>)
\* The requests are Cfg("app", ..) of the app; Cfg("logoutPOST", ..) of
\* portal_account.ts logout, POST /api/logout without a body; Cfg("loginGET", ..)
\* and Cfg("loginPOST", ..) of portal_account.ts login, GET /api/login?pubKey=...
\* and then POST /api/login.

\* Calling request function fn with cfg: each wrapper layer enters its `try`
\* and calls the function it captured, down to the original, which sends.
RECURSIVE CallFn(_, _, _)
CallFn(fn, cfg, stack) ==
  IF fn = <<>>
  THEN [stack |-> stack, send |-> cfg, final |-> 0]
  ELSE CallFn(Tail(fn), cfg, Append(stack, [layer |-> Head(fn), inner |-> Tail(fn), cfg |-> cfg, pc |-> "try"]))

\* The portal answered `status` to the request at the bottom of `stack`: the
\* wrapper frames run on, innermost first, until one sends a request or the
\* outermost returns.  `exec` is client.executeRequest at this moment, which
\* login(this, seed, email) calls for its GET and its POST.
RECURSIVE ReturnTo(_, _, _)
ReturnTo(stack, status, exec) ==
  IF stack = <<>>
  THEN [stack |-> <<>>, send |-> NoCfg, final |-> status]
  ELSE LET f == stack[Len(stack)]
           rest == SubSeq(stack, 1, Len(stack) - 1)
       IN  CASE f.pc = "try" ->
                  \* catch (e) { if (e.responseStatus === 401) ...login... else throw e }
                  IF status = 401
                  THEN CallFn(exec, Cfg("loginGET", PublicKey(genPortalLoginKeypair(f.layer.seed, f.layer.email))), Append(rest, [f EXCEPT !.pc = "get"]))
                  ELSE ReturnTo(rest, status, exec)
             [] f.pc = "get" ->
                  IF status = 200
                  THEN CallFn(exec, Cfg("loginPOST", <<>>), Append(rest, [f EXCEPT !.pc = "post"]))
                  ELSE ReturnTo(rest, status, exec)
             [] f.pc = "post" ->
                  IF status = 200
                  THEN CallFn(f.inner, f.cfg, Append(rest, [f EXCEPT !.pc = "retry"]))
                  ELSE ReturnTo(rest, status, exec)
             [] OTHER -> ReturnTo(rest, status, exec)

\* An operation that waits for the portal: the wrapper frames it is in, what
\* logout recorded, its outcome, and (for the properties) the requests it
\* sent, the portal's answers to them, whether logout found a seed and the
\* number of UI writes when it started.
\* [pc, stack, errors, status, code, sent, replies, hadSeed, writesAtStart]

Waiting(thread, r) ==
  [thread EXCEPT !.pc = "wait", !.stack = r.stack, !.sent = Append(@, r.send)]

Replied(thread, status) == [thread EXCEPT !.replies = Append(@, status)]

\* Some code of the frame sends an authenticated request through
\* this.client.executeRequest (for instance getJSONEncrypted's getRawBytes).
AppRequest ==
  /\ phase = "ready"
  /\ threads["app"].pc = "idle"
  /\ Len(portal) < MaxReq
  /\ LET r == CallFn(clientExec, Cfg("app", <<>>), <<>>)
     IN  /\ threads' = [threads EXCEPT !["app"] = Waiting(@, r)]
         /\ portal' = Append(portal, r.send)
  /\ UNCHANGED <<storedSeed, storedEmail, phase, permissionsProvider, providers, events,
                 writes, calls, clientExec, originalExecuteRequest, setupErrors>>
  /\ UNCHANGED <<attempts, host, codec, display, seedPage>>

\* The portal answers the request the app thread waits for.
AppReply(status) ==
  /\ threads["app"].pc = "wait"
  /\ LET r == ReturnTo(threads["app"].stack, status, clientExec)
     IN  IF r.send # NoCfg
         THEN /\ Len(portal) < MaxReq
              /\ threads' = [threads EXCEPT !["app"] = Waiting(Replied(@, status), r)]
              /\ portal' = Append(portal, r.send)
         ELSE /\ threads' = [threads EXCEPT !["app"] =
                   [Replied(@, status) EXCEPT !.pc = "done", !.stack = <<>>, !.code = r.final,
                             !.status = IF r.final = 200 THEN "ok" ELSE "error"]]
              /\ UNCHANGED portal
  /\ UNCHANGED <<storedSeed, storedEmail, phase, permissionsProvider, providers, events,
                 writes, calls, clientExec, originalExecuteRequest, setupErrors>>
  /\ UNCHANGED <<attempts, host, codec, display, seedPage>>

\* ----------------------------------------------------------------- logout
\* portal_account.ts logout(client, customOptions): the request function it
\* calls.  customOptions.executeRequest is merged into opts and not read.
LogoutRequestFn(clientFn, optsExecuteRequest) == clientFn

\* MySky.logout: if (errors.length > 0) throw ...
LogoutThrows_several(errors) == Len(errors) > 1

LogoutThrows(errors) == Len(errors) > 0

\* The parent calls logout(): the seed is checked and cleared and the portal
\* logout request is sent.
LogoutCall ==
  /\ phase = "ready"
  /\ threads["logout"].pc = "idle"
  /\ Len(portal) < MaxReq
  /\ storedSeed' = IF CheckStoredSeed(storedSeed) # {} THEN ClearedSeed
                   ELSE StorageAfterCheck(storedSeed)
  /\ LET r == CallFn(LogoutRequestFn(clientExec, originalExecuteRequest), Cfg("logoutPOST", <<>>), <<>>)
         errors == IF CheckStoredSeed(storedSeed) # {} THEN <<>>
                   ELSE <<"MySky user is already logged out">>
     IN  /\ threads' = [threads EXCEPT !["logout"] =
               Waiting([@ EXCEPT !.errors = errors,
                                 !.hadSeed = CheckStoredSeed(storedSeed) # {},
                                 !.writesAtStart = writes], r)]
         /\ portal' = Append(portal, r.send)
  /\ UNCHANGED <<storedEmail, phase, permissionsProvider, providers, events,
                 writes, calls, clientExec, originalExecuteRequest, setupErrors>>
  /\ UNCHANGED <<attempts, host, codec, display, seedPage>>

\* The portal answers the request logout waits for; when the logout request
\* function returns, logout restores executeRequest and throws what it recorded.
LogoutReply(status) ==
  /\ threads["logout"].pc = "wait"
  /\ LET r == ReturnTo(threads["logout"].stack, status, clientExec)
     IN  IF r.send # NoCfg
         THEN /\ Len(portal) < MaxReq
              /\ threads' = [threads EXCEPT !["logout"] = Waiting(Replied(@, status), r)]
              /\ portal' = Append(portal, r.send)
              /\ UNCHANGED <<clientExec, originalExecuteRequest>>
         ELSE /\ LET errors == IF r.final # 200 /\ r.final # 401  \* catch: e.responseStatus !== 401
                               THEN Append(threads["logout"].errors, "portal logout failed")
                               ELSE threads["logout"].errors
                 IN  threads' = [threads EXCEPT !["logout"] =
                       [Replied(@, status) EXCEPT !.pc = "done", !.stack = <<>>,
                                 !.code = r.final, !.errors = errors,
                                 !.status = IF LogoutThrows(errors) THEN "error" ELSE "ok"]]
              /\ IF originalExecuteRequest # {}
                 THEN /\ clientExec' = CHOOSE fn \in originalExecuteRequest : TRUE
                      /\ originalExecuteRequest' = {}
                 ELSE UNCHANGED <<clientExec, originalExecuteRequest>>
              /\ UNCHANGED portal
  /\ UNCHANGED <<storedSeed, storedEmail, phase, permissionsProvider, providers, events,
                 writes, calls, setupErrors>>
  /\ UNCHANGED <<attempts, host, codec, display, seedPage>>

\* ------------------------------------------- challenge-response (pure)
\* Text is a sequence of code points, bytes are numbers in 0 .. 255, and a
\* hex string is a sequence of one-character strings.
HexLower == <<"0", "1", "2", "3", "4", "5", "6", "7", "8", "9", "a", "b", "c", "d", "e", "f">>
HexUpper == <<"0", "1", "2", "3", "4", "5", "6", "7", "8", "9", "A", "B", "C", "D", "E", "F">>

IsHexChar(ch) == \E v \in 1 .. 16 : HexLower[v] = ch \/ HexUpper[v] = ch

\* validateHexString: every character is a hex digit.
validateHexString(str) == \A i \in 1 .. Len(str) : IsHexChar(str[i])

\* hexToUint8Array: one byte for each pair of digits.
hexToUint8Array(str) ==
  LET \* parseInt(digit, 16); a byte built from something else is stored as 0.
      HexVal(ch) ==
        IF IsHexChar(ch) THEN (CHOOSE v \in 1 .. 16 : HexLower[v] = ch \/ HexUpper[v] = ch) - 1
        ELSE 0
  IN  [i \in 1 .. (Len(str) \div 2) |-> 16 * HexVal(str[2 * i - 1]) + HexVal(str[2 * i])]

\* toHexString: two lower-case digits for each byte.
toHexString(bytes) ==
  [i \in 1 .. 2 * Len(bytes) |->
     IF i % 2 = 1 THEN HexLower[(bytes[(i + 1) \div 2] \div 16) + 1]
     ELSE HexLower[(bytes[i \div 2] % 16) + 1]]

\* stringToUint8ArrayUtf8, for code points below 2048.
RECURSIVE stringToUint8ArrayUtf8(_)
stringToUint8ArrayUtf8(str) ==
  LET Utf8Char(cp) == IF cp < 128 THEN <<cp>> ELSE <<192 + (cp \div 64), 128 + (cp % 64)>>
  IN  IF str = <<>> THEN <<>> ELSE Utf8Char(Head(str)) \o stringToUint8ArrayUtf8(Tail(str))

CHALLENGE_SIZE == 32
\* "skynet-portal-login"
CHALLENGE_TYPE_LOGIN == <<115, 107, 121, 110, 101, 116, 45, 112, 111, 114, 116, 97, 108, 45, 108, 111, 103, 105, 110>>
\* "skynet-portal-register"
CHALLENGE_TYPE_REGISTER == <<115, 107, 121, 110, 101, 116, 45, 112, 111, 114, 116, 97, 108, 45, 114, 101, 103, 105, 115, 116, 101, 114>>

\* Strings are sequences of code points.
\* words.join(sep)
RECURSIVE Join(_, _)
Join(words, sep) ==
  IF Len(words) = 0 THEN <<>>
  ELSE IF Len(words) = 1 THEN words[1]
  ELSE words[1] \o sep \o Join(Tail(words), sep)

\* str.split(" "): the pieces between the separators, empty ones included.
RECURSIVE Split(_, _)
Split(str, sep) ==
  LET at == {i \in 1..Len(str) : str[i] = sep}
  IN  IF at = {} THEN <<str>>
      ELSE LET i == CHOOSE k \in at : \A m \in at : k <= m
           IN  <<SubSeq(str, 1, i - 1)>> \o Split(SubSeq(str, i + 1, Len(str)), sep)

\* str.toLowerCase(), on ASCII
ToLowerCase(str) == [i \in 1..Len(str) |-> IF str[i] \in 65..90 THEN str[i] + 32 ELSE str[i]]

\* ensureUrl(url): "https://" goes before a url that does not start with
\* "http://" or "https://".
ensureUrl(url) ==
  LET StartsWith(str, prefix) ==
        Len(str) >= Len(prefix) /\ SubSeq(str, 1, Len(prefix)) = prefix
  IN  IF StartsWith(url, <<104, 116, 116, 112, 58, 47, 47>>) \/ StartsWith(url, <<104, 116, 116, 112, 115, 58, 47, 47>>) THEN url
      ELSE <<104, 116, 116, 112, 115, 58, 47, 47>> \o url

\* new URL(text) for an http or https URL without user info, query or
\* fragment: protocol ("https:"), hostname, port ("" for the default port of
\* the protocol) and pathname ("/" when the text has none).
URL(text) ==
  LET Least(S) == CHOOSE k \in S : \A m \in S : k <= m
      colon == Least({i \in 1..Len(text) : text[i] = 58})
      protocol == SubSeq(text, 1, colon)
      rest == SubSeq(text, colon + 3, Len(text))
      slashes == {i \in 1..Len(rest) : rest[i] = 47}
      authority == IF slashes = {} THEN rest ELSE SubSeq(rest, 1, Least(slashes) - 1)
      pathname == IF slashes = {} THEN <<47>> ELSE SubSeq(rest, Least(slashes), Len(rest))
      colons == {i \in 1..Len(authority) : authority[i] = 58}
      hostname == IF colons = {} THEN authority ELSE SubSeq(authority, 1, Least(colons) - 1)
      port == IF colons = {} THEN <<>> ELSE SubSeq(authority, Least(colons) + 1, Len(authority))
      defaultPort == IF protocol = <<104, 116, 116, 112, 115, 58>> THEN <<52, 52, 51>> ELSE <<56, 48>>
  IN  [protocol |-> protocol, hostname |-> ToLowerCase(hostname),
       port |-> IF port = defaultPort THEN <<>> ELSE port, pathname |-> pathname]

\* trimSuffix(str, suffix): the suffix is taken off as long as it is there.
RECURSIVE trimSuffix(_, _)
trimSuffix(str, suffix) ==
  IF Len(str) >= Len(suffix) /\ SubSeq(str, Len(str) - Len(suffix) + 1, Len(str)) = suffix
  THEN trimSuffix(SubSeq(str, 1, Len(str) - Len(suffix)), suffix)
  ELSE str

\* getPortalRecipient(portalUrl): the URL with only the last two labels of its
\* host name, as a string, without trailing slashes.
getPortalRecipient(portalUrl) ==
  LET url == URL(ensureUrl(portalUrl))
      \* array.slice(-2)
      LastTwo(array) == SubSeq(array, IF Len(array) > 2 THEN Len(array) - 1 ELSE 1, Len(array))
      shortened == [url EXCEPT !.hostname = Join(LastTwo(Split(url.hostname, 46)), <<46>>)]
      \* url.toString()
      UrlToString(u) ==
        u.protocol \o <<47, 47>> \o u.hostname
          \o (IF u.port = <<>> THEN <<>> ELSE <<58>> \o u.port) \o u.pathname
  IN  trimSuffix(UrlToString(shortened), <<47>>)

\* The challenges the portal may return with a 200: two of 32 bytes, one
\* with upper-case digits; one that is not hex; one of 31 bytes.
ChallengeUpper == <<"A", "1", "B", "2", "C", "3", "D", "4", "E", "5", "F", "6", "0", "7", "1", "8", "2", "9", "3", "A", "4", "B", "5", "C", "6", "D", "7", "E", "8", "F", "9", "0", "a", "1", "b", "2", "c", "3", "d", "4", "e", "5", "f", "6", "0", "7", "1", "8", "2", "9", "3", "a", "4", "b", "5", "c", "6", "d", "7", "e", "8", "f", "9", "0">>
ChallengeNotHex == <<"z", "z", "0", "c", "c", "f", "f", "b", "b", "b", "c", "c", "3", "0", "4", "6", "5", "2", "4", "8", "8", "9", "0", "3", "c", "a", "4", "2", "5", "d", "4", "2", "4", "9", "0", "c", "c", "f", "f", "b", "b", "b", "c", "c", "3", "0", "4", "6", "5", "2", "4", "8", "8", "9", "0", "3", "c", "a", "4", "2", "5", "d", "4", "2">>
ChallengeShort == <<"4", "9", "0", "c", "c", "f", "f", "b", "b", "b", "c", "c", "3", "0", "4", "6", "5", "2", "4", "8", "8", "9", "0", "3", "c", "a", "4", "2", "5", "d", "4", "2", "4", "9", "0", "c", "c", "f", "f", "b", "b", "b", "c", "c", "3", "0", "4", "6", "5", "2", "4", "8", "8", "9", "0", "3", "c", "a", "4", "2", "5", "d">>
\* sign(dataBytes, privateKeyBytes).slice(0, CHALLENGE_SIGNATURE_SIZE)
Signature(privateKey, dataBytes) == <<"signature", privateKey, dataBytes>>

\* signChallenge with every challenge type signed as a login.
ChallengeData_sameType(challengeBytes, challengeType, portalRecipient) ==
  challengeBytes \o stringToUint8ArrayUtf8(CHALLENGE_TYPE_LOGIN)
                 \o stringToUint8ArrayUtf8(portalRecipient)

\* signChallenge: dataBytes = [...challengeBytes, ...typeBytes, ...portalBytes]
ChallengeData(challengeBytes, challengeType, portalRecipient) ==
  challengeBytes \o stringToUint8ArrayUtf8(challengeType)
                 \o stringToUint8ArrayUtf8(portalRecipient)

\* signChallenge without its checks of the challenge.
ChallengeValid_unchecked(challenge) == TRUE

\* signChallenge: validateHexString and validateUint8ArrayLen of the challenge.
ChallengeValid(challenge) ==
  /\ validateHexString(challenge)
  /\ Len(hexToUint8Array(challenge)) = CHALLENGE_SIZE

\* signChallenge(privateKey, challenge, challengeType, portalRecipient) for a
\* challenge that passed the checks: {response, signature}.
signChallenge(privateKey, challenge, challengeType, portalRecipient) ==
  LET dataBytes == ChallengeData(hexToUint8Array(challenge), challengeType, portalRecipient)
  IN  [response |-> toHexString(dataBytes),
       signature |-> Signature(privateKey, dataBytes),
       signed |-> dataBytes]

\* ------------------------------------------------ login and register
AttemptIds == 1 .. NAttempts
Tweaks == {"foobar"}

\* DEFAULT_LOGIN_OPTIONS, DEFAULT_REGISTER_OPTIONS, DEFAULT_REGISTER_USER_PUBKEY_OPTIONS
Endpoint(kind) ==
  CASE kind = "login" -> "/api/login"
    [] kind = "register" -> "/api/register"
    [] OTHER -> "/api/user/pubkey/register"

\* login signs CHALLENGE_TYPE_LOGIN, register and registerUserPubkey
\* CHALLENGE_TYPE_REGISTER.
ChallengeType(kind) ==
  IF kind = "login" THEN CHALLENGE_TYPE_LOGIN ELSE CHALLENGE_TYPE_REGISTER

\* A request config handed to client.executeRequest; subdomain is
\* PORTAL_ACCOUNT_PAGE_SUBDOMAIN.  <<>> and Null stand for a key that is absent.
Request(method, endpointPath, pubKey, response, signature, email) ==
  [method |-> method, endpointPath |-> endpointPath, subdomain |-> "account",
   pubKey |-> pubKey, response |-> response, signature |-> signature, email |-> email]

\* The query of the GET carries the private key instead of the public key.
GetRequest_privateKey(kind, seed, tweak) ==
  Request("GET", Endpoint(kind), PrivateKey(genPortalLoginKeypair(seed, tweak)), <<>>, <<>>, Null)

\* GET endpoint?pubKey=publicKey
GetRequest(kind, seed, tweak) ==
  Request("GET", Endpoint(kind), PublicKey(genPortalLoginKeypair(seed, tweak)), <<>>, <<>>, Null)

IdleAttempt ==
  [pc |-> "idle", kind |-> Null, seed |-> Null, tweak |-> Null, email |-> Null,
   url |-> <<>>, challenge |-> <<>>, sent |-> <<>>, replies |-> <<>>,
   signed |-> <<>>, status |-> "none"]

\* login / register / registerUserPubkey up to the wait for the GET.
AttemptStart(a, kind, seed, tweak, email, url) ==
  /\ attempts[a].pc = "idle"
  \* Attempts are made one after the other.
  /\ \A b \in AttemptIds : b < a => attempts[b].pc = "done"
  /\ attempts' = [attempts EXCEPT ![a] =
       [IdleAttempt EXCEPT !.pc = "get", !.kind = kind, !.seed = seed, !.tweak = tweak,
                           !.email = email, !.url = url,
                           !.sent = <<GetRequest(kind, seed, tweak)>>]]
  /\ UNCHANGED <<storedSeed, storedEmail, phase, permissionsProvider, providers, events,
                 writes, calls, clientExec, originalExecuteRequest, threads, portal,
                 setupErrors>>
  /\ UNCHANGED <<host, codec, display, seedPage>>

\* The GET returned (status 200, data.challenge) or failed: on a failure the
\* error of executeRequest leaves the function; otherwise the challenge is
\* signed, or signChallenge throws, and the POST is sent.
AttemptChallenge(a, status, challenge) ==
  /\ attempts[a].pc = "get"
  /\ LET t == attempts[a]
         t1 == [t EXCEPT !.replies = Append(@, status)]
         keyPair == genPortalLoginKeypair(t.seed, t.tweak)
         cr == signChallenge(PrivateKey(keyPair), challenge, ChallengeType(t.kind),
                             getPortalRecipient(t.url))
     IN  attempts' = [attempts EXCEPT ![a] =
           IF status # 200
           THEN [t1 EXCEPT !.pc = "done", !.status = "failed"]
           ELSE IF ~ ChallengeValid(challenge)
           THEN [t1 EXCEPT !.pc = "done", !.status = "invalid", !.challenge = challenge]
           ELSE [t1 EXCEPT !.pc = "post", !.challenge = challenge,
                           !.signed = Append(@, cr.signed),
                           \* POST endpoint with {response, signature} and, for register, email
                           !.sent = Append(@, Request("POST", Endpoint(t.kind), <<>>, cr.response, cr.signature,
                                                      IF t.kind = "register" THEN t.email ELSE Null))]]
  /\ UNCHANGED <<storedSeed, storedEmail, phase, permissionsProvider, providers, events,
                 writes, calls, clientExec, originalExecuteRequest, threads, portal,
                 setupErrors>>
  /\ UNCHANGED <<host, codec, display, seedPage>>

\* The POST returned or failed.
AttemptResult(a, status) ==
  /\ attempts[a].pc = "post"
  /\ attempts' = [attempts EXCEPT ![a] =
       [@ EXCEPT !.pc = "done", !.replies = Append(@, status),
                 !.status = IF status = 200 THEN "accepted" ELSE "rejected"]]
  /\ UNCHANGED <<storedSeed, storedEmail, phase, permissionsProvider, providers, events,
                 writes, calls, clientExec, originalExecuteRequest, threads, portal,
                 setupErrors>>
  /\ UNCHANGED <<host, codec, display, seedPage>>

\* ------------------------------------------------------------ seed phrase
\* Text is a sequence of code points, as in the challenge response; a byte
\* array is a sequence of numbers in 0..255, a Uint16Array one of numbers in
\* 0..65535.  Arrays are indexed from 0 in the code and from 1 here.
SEED_WORDS_LENGTH == 13
CHECKSUM_WORDS_LENGTH == 2
PHRASE_LENGTH == SEED_WORDS_LENGTH + CHECKSUM_WORDS_LENGTH
SEED_LENGTH == 16

Space == 32

Min(a, b) == IF a < b THEN a ELSE b

\* 1 << n
RECURSIVE Pow2(_)
Pow2(n) == IF n = 0 THEN 1 ELSE 2 * Pow2(n - 1)

\* x & mask, for a mask of one bit.
BitAnd(x, mask) == ((x \div mask) % 2) * mask

\* The dictionary: 1024 words sorted by their 3-letter prefixes, which are
\* all different.  Word j is the three base-16 digits of j written with the
\* letters a..p, and one more letter.
dictionary ==
  [j \in 0..1023 |->
     <<97 + (j \div 256), 97 + ((j \div 16) % 16), 97 + (j % 16), 97 + (j % 5)>>]

\* dictionary[j].slice(0, 3)
dictionaryPrefixes == [j \in DOMAIN dictionary |-> SubSeq(dictionary[j], 1, 3)]

\* dictionary.length
DictionaryLength == Cardinality(DOMAIN dictionary)

\* str.slice(0, 3)
Prefix(word) == SubSeq(word, 1, Min(3, Len(word)))

\* a < b on strings, in the place of a > b.
RECURSIVE GreaterThan_less(_, _)
GreaterThan_less(a, b) ==
  IF Len(b) = 0 THEN FALSE
  ELSE IF Len(a) = 0 THEN TRUE
  ELSE IF a[1] # b[1] THEN a[1] < b[1]
  ELSE GreaterThan_less(Tail(a), Tail(b))

\* a > b on strings: by the first code unit that differs, else by length.
RECURSIVE GreaterThan(_, _)
GreaterThan(a, b) ==
  IF Len(a) = 0 THEN FALSE
  ELSE IF Len(b) = 0 THEN TRUE
  ELSE IF a[1] # b[1] THEN a[1] > b[1]
  ELSE GreaterThan(Tail(a), Tail(b))

\* nacl.hash (SHA-512) by contract: a function of the bytes hashed that gives
\* 64 bytes.  This one mixes every input byte into every digest byte.
RECURSIVE Mix(_, _, _)
Mix(bytes, k, i) ==
  IF i > Len(bytes) THEN 0
  ELSE ((i + k) * bytes[i] + ((i * k) % 7) + Mix(bytes, k, i + 1)) % 256
hash(bytes) == [k \in 1..64 |-> (Mix(bytes, k, 1) + 37 * k) % 256]

\* hashToChecksumWords with the second word taken from digest bit 8 on.
hashToChecksumWords_fromBit8(h) ==
  LET word1 == (h[1] * 256 + h[2]) \div 64
      word2 == (((h[2] * 256) + h[3]) \div 64) % 1024
  IN  <<word1 % 65536, word2 % 65536>>

\* hashToChecksumWords(h): shifts and masks on h[0], h[1], h[2]; the result is
\* stored in a Uint16Array.
hashToChecksumWords(h) ==
  LET word1 == (h[1] * 256 + h[2]) \div 64
      word2 == (((h[2] * 1024) % 65536) + h[3] * 4) \div 64
  IN  <<word1 % 65536, word2 % 65536>>

\* hashToChecksum reading each hash byte from its lowest bit.
hashToChecksum_lowBitFirst(h) ==
  LET RECURSIVE Bits(_, _)
      Bits(numBits, acc) ==
        IF numBits >= 20 THEN acc.bytes
        ELSE LET hashByte == h[(numBits \div 8) + 1]
                 j == numBits % 8
                 bitSet == BitAnd(hashByte, Pow2(j)) > 0
                 bytes == IF bitSet
                          THEN [acc.bytes EXCEPT ![acc.curByte + 1] =
                                  IF BitAnd(@, Pow2(10 - acc.curBit - 1)) > 0 THEN @
                                  ELSE @ + Pow2(10 - acc.curBit - 1)]
                          ELSE acc.bytes
             IN  IF acc.curBit + 1 >= 10
                 THEN Bits(numBits + 1, [bytes |-> bytes, curByte |-> acc.curByte + 1, curBit |-> 0])
                 ELSE Bits(numBits + 1, [bytes |-> bytes, curByte |-> acc.curByte,
                                         curBit |-> acc.curBit + 1])
  IN  Bits(0, [bytes |-> <<0, 0>>, curByte |-> 0, curBit |-> 0])

\* hashToChecksum(h) of the older revision (scripts/ui.ts): the loops over the
\* hash bytes (i = numBits div 8) and the bits of a byte (j = numBits mod 8),
\* which end together when numBits reaches 20; `bytes`, `curByte` and `curBit`
\* are in acc.
hashToChecksum(h) ==
  LET RECURSIVE Bits(_, _)
      Bits(numBits, acc) ==
        IF numBits >= 20 THEN acc.bytes
        ELSE LET hashByte == h[(numBits \div 8) + 1]
                 j == numBits % 8
                 bitSet == BitAnd(hashByte, Pow2(8 - j - 1)) > 0
                 bytes == IF bitSet
                          THEN [acc.bytes EXCEPT ![acc.curByte + 1] =
                                  IF BitAnd(@, Pow2(10 - acc.curBit - 1)) > 0 THEN @
                                  ELSE @ + Pow2(10 - acc.curBit - 1)]
                          ELSE acc.bytes
             IN  IF acc.curBit + 1 >= 10
                 THEN Bits(numBits + 1, [bytes |-> bytes, curByte |-> acc.curByte + 1, curBit |-> 0])
                 ELSE Bits(numBits + 1, [bytes |-> bytes, curByte |-> acc.curByte,
                                         curBit |-> acc.curBit + 1])
  IN  Bits(0, [bytes |-> <<0, 0>>, curByte |-> 0, curBit |-> 0])

\* seedWordsToSeed: every word takes ten bits.
WordBits_ten(i) == 10

\* seedWordsToSeed: wordBits of word i, 8 for the last word.
WordBits(i) == IF i = SEED_WORDS_LENGTH - 1 THEN 8 ELSE 10

\* seedWordsToSeed: the inner loop over the bits of one word, from bit j on.
\* acc holds `bytes`, `curByte`, `curBit` and, in `visited`, the bits of the
\* output the loop has stood at, in order.
RECURSIVE PackWord(_, _, _, _)
PackWord(word, wordBits, j, acc) ==
  IF j >= wordBits THEN acc
  ELSE LET \* x | mask, for a mask of one bit.
           BitOr(x, mask) == IF BitAnd(x, mask) > 0 THEN x ELSE x + mask
           bitSet == BitAnd(word, Pow2(wordBits - j - 1)) > 0
           bytes == IF bitSet /\ acc.curByte < SEED_LENGTH
                    THEN [acc.bytes EXCEPT ![acc.curByte + 1] = BitOr(@, Pow2(8 - acc.curBit - 1))]
                    ELSE acc.bytes
           visited == Append(acc.visited, 8 * acc.curByte + acc.curBit)
       IN  IF acc.curBit + 1 >= 8
           THEN PackWord(word, wordBits, j + 1,
                         [bytes |-> bytes, visited |-> visited,
                          curByte |-> acc.curByte + 1, curBit |-> 0])
           ELSE PackWord(word, wordBits, j + 1,
                         [bytes |-> bytes, visited |-> visited,
                          curByte |-> acc.curByte, curBit |-> acc.curBit + 1])

\* seedWordsToSeed: the outer loop over the words, from word i on.
RECURSIVE PackWords(_, _, _)
PackWords(seedWords, i, acc) ==
  IF i >= SEED_WORDS_LENGTH THEN acc
  ELSE PackWords(seedWords, i + 1, PackWord(seedWords[i + 1], WordBits(i), 0, acc))

\* seedWordsToSeed(seedWords) with the bits it visited.
PackedSeed(seedWords) ==
  PackWords(seedWords, 0,
            [bytes |-> [k \in 1..SEED_LENGTH |-> 0], visited |-> <<>>, curByte |-> 0, curBit |-> 0])

seedWordsToSeed(seedWords) == PackedSeed(seedWords).bytes

\* generateChecksumWordsFromSeedWords(seedWords)
generateChecksumWordsFromSeedWords(seedWords) ==
  hashToChecksumWords(hash(seedWordsToSeed(seedWords)))

\* generatePhrase keeps ten bits of every random value.
SeedWordsFromRandom_tenBits(random) == [i \in 1..SEED_WORDS_LENGTH |-> random[i] % Pow2(10)]

\* generatePhrase: seedWords[i] % (1 << numBits), numBits 8 for the 13th word.
SeedWordsFromRandom(random) ==
  [i \in 1..SEED_WORDS_LENGTH |-> random[i] % Pow2(IF i - 1 = 12 THEN 8 ELSE 10)]

\* generatePhrase(), for the values window.crypto.getRandomValues drew.
generatePhrase(random) ==
  LET seedWords == SeedWordsFromRandom(random)
      checksumWords == generateChecksumWordsFromSeedWords(seedWords)
      phraseWords == [i \in 1..PHRASE_LENGTH |->
                        IF i <= SEED_WORDS_LENGTH THEN dictionary[seedWords[i]]
                        ELSE dictionary[checksumWords[i - SEED_WORDS_LENGTH]]]
  IN  Join(phraseWords, <<Space>>)

\* str.trim()
Trim(str) ==
  LET Whitespace == {9, 10, 13, 32}
      inked == {i \in 1..Len(str) : str[i] \notin Whitespace}
  IN  IF inked = {} THEN <<>>
      ELSE SubSeq(str, CHOOSE i \in inked : \A k \in inked : i <= k,
                       CHOOSE i \in inked : \A k \in inked : i >= k)

\* removeAdjacentChars(str, char): a run of `char` becomes one.  A character
\* is dropped when it is `char` and the next one is too.
removeAdjacentChars(str, char) ==
  LET pairs == [i \in 1..Len(str) |-> <<str[i], IF i < Len(str) THEN str[i + 1] ELSE -1>>]
      Kept(pair) == ~ (pair[1] = char /\ pair[2] = char)
      kept == SelectSeq(pairs, Kept)
  IN  [i \in 1..Len(kept) |-> kept[i][1]]

\* sanitizePhrase without toLowerCase.
sanitizePhrase_caseKept(phrase) == removeAdjacentChars(Trim(phrase), Space)

\* sanitizePhrase(phrase)
sanitizePhrase(phrase) == removeAdjacentChars(ToLowerCase(Trim(phrase)), Space)

\* validatePhrase: the scan of the dictionary from entry j up to `bound`: the
\* index of the first entry with the word's prefix, -1 when the scan ends or
\* breaks at a greater prefix.  ScanSome scans the entries below `end` and
\* gives -2 when the loop goes on after them.
RECURSIVE ScanSome(_, _, _)
ScanSome(prefix, j, end) ==
  IF j >= end THEN -2
  ELSE IF dictionaryPrefixes[j] = prefix THEN j
  ELSE IF GreaterThan(dictionaryPrefixes[j], prefix) THEN -1
  ELSE ScanSome(prefix, j + 1, end)
RECURSIVE ScanMore(_, _, _)
ScanMore(prefix, j, end) ==
  IF j >= end THEN -2
  ELSE LET some == ScanSome(prefix, j, Min(j + 8, end))
       IN  IF some = -2 THEN ScanMore(prefix, j + 8, end) ELSE some
RECURSIVE Scan(_, _, _)
Scan(prefix, j, bound) ==
  IF j >= bound THEN -1
  ELSE LET more == ScanMore(prefix, j, Min(j + 64, bound))
       IN  IF more = -2 THEN Scan(prefix, j + 64, bound) ELSE more

\* validatePhrase: every word is looked up in the whole dictionary.
Bound_full(i) == DictionaryLength

\* validatePhrase: the bound of the scan for word i.
Bound(i) == IF i = 12 THEN 256 ELSE DictionaryLength

\* The results of validatePhrase: [valid, error, seed]; seed is {} for null.
\* An error is its kind, the word number it reports (or the length) and the
\* text it quotes.
PhraseError(kind, n, text) == [kind |-> kind, n |-> n, text |-> text]
NoError == PhraseError("", 0, <<>>)

\* validatePhrase: the loop over the words, from word i.  `lookups` counts the
\* words the dictionary was scanned for.
RECURSIVE ResolveWords(_, _, _)
ResolveWords(phraseWords, i, seedWords) ==
  IF i >= Len(phraseWords)
  THEN [error |-> NoError, seedWords |-> seedWords, lookups |-> i]
  ELSE LET word == phraseWords[i + 1]
           prefix == Prefix(word)
           found == Scan(prefix, 0, Bound(i))
       IN  IF Len(word) < 3
           THEN [error |-> PhraseError("short", i + 1, <<>>), seedWords |-> seedWords,
                 lookups |-> i]
           ELSE IF found < 0
           THEN [error |-> IF i = 12 THEN PhraseError("first256", i + 1, <<>>)
                           ELSE PhraseError("unrecognized", i + 1, prefix),
                 seedWords |-> seedWords, lookups |-> i + 1]
           ELSE ResolveWords(phraseWords, i + 1,
                             IF i < SEED_WORDS_LENGTH
                             THEN [seedWords EXCEPT ![i + 1] = found] ELSE seedWords)

\* validatePhrase accepts a phrase of fifteen words or more.
PhraseLengthOk_atLeast(phraseWords) == Len(phraseWords) >= PHRASE_LENGTH

\* validatePhrase: phraseWords.length !== PHRASE_LENGTH
PhraseLengthOk(phraseWords) == Len(phraseWords) = PHRASE_LENGTH

\* validatePhrase compares the first checksum word only.
BadChecksumWords_firstOnly(phraseWords, checksumWords) ==
  {i \in 0..0 :
     Prefix(phraseWords[i + 1 + SEED_WORDS_LENGTH]) # dictionaryPrefixes[checksumWords[i + 1]]}

\* validatePhrase: the checksum words whose prefix is not the recomputed one.
BadChecksumWords(phraseWords, checksumWords) ==
  {i \in 0..(CHECKSUM_WORDS_LENGTH - 1) :
     Prefix(phraseWords[i + 1 + SEED_WORDS_LENGTH]) # dictionaryPrefixes[checksumWords[i + 1]]}

\* validatePhrase(phrase)
validatePhrase(phrase) ==
  LET phraseWords == Split(sanitizePhrase(phrase), Space)
      resolved == ResolveWords(phraseWords, 0, [i \in 1..SEED_WORDS_LENGTH |-> 0])
      checksumWords == generateChecksumWordsFromSeedWords(resolved.seedWords)
      bad == BadChecksumWords(phraseWords, checksumWords)
      first == CHOOSE i \in bad : \A k \in bad : i <= k
  IN  IF ~ PhraseLengthOk(phraseWords)
      THEN [valid |-> FALSE, error |-> PhraseError("length", Len(phraseWords), <<>>),
            seed |-> {}, lookups |-> 0]
      ELSE IF resolved.error # NoError
      THEN [valid |-> FALSE, error |-> resolved.error, seed |-> {}, lookups |-> resolved.lookups]
      ELSE IF bad # {}
      THEN [valid |-> FALSE,
            error |-> PhraseError("checksum", 0,
                                  phraseWords[first + 1 + SEED_WORDS_LENGTH]),
            seed |-> {}, lookups |-> resolved.lookups]
      ELSE [valid |-> TRUE, error |-> NoError, seed |-> {seedWordsToSeed(resolved.seedWords)},
            lookups |-> resolved.lookups]

\* The values window.crypto.getRandomValues may put in a Uint16Array cell, and
\* the draws of thirteen of them: all cells alike but one.
RawSamples == {(k * 21845) % 65536 : k \in 0..(NSamples - 1)}
Draws ==
  {[i \in 1..SEED_WORDS_LENGTH |-> IF i = p THEN a ELSE b] :
     p \in 1..SEED_WORDS_LENGTH, a \in RawSamples, b \in RawSamples}
\* What the user does to a generated phrase before handing it in: nothing,
\* another word at one place, the last word left out, or a word added.
Edit(kind, at, word) == [kind |-> kind, at |-> at, word |-> word]
NoEdit == Edit("none", 0, <<>>)

Edited(words, edit) ==
  CASE edit.kind = "set" -> [words EXCEPT ![edit.at] = edit.word]
    [] edit.kind = "drop" -> SubSeq(words, 1, Len(words) - 1)
    [] edit.kind = "add" -> Append(words, edit.word)
    [] OTHER -> words

\* The phrases handed to validatePhrase: the phrase generated from `random`,
\* edited and written in a style.  Some draws are handed in as they are; the
\* phrases of two draws are edited, and with some edits written in every style.
Entries ==
  LET Entry(random, edit, style) == [random |-> random, edit |-> edit, style |-> style]
      \* The words put in are entry 0 and entry 300 of the dictionary; a word with
      \* the prefix of entry 300; "aazx" and "zzzz", whose prefixes no entry has;
      \* "ab".
      Edits ==
        {NoEdit, Edit("drop", 0, <<>>), Edit("add", 0, dictionary[0])}
          \cup {Edit("set", at, word) :
                  at \in {1, 12, 13, 14, 15},
                  word \in { dictionary[0], dictionary[300],
                             Prefix(dictionary[300]) \o <<122, 122>>,
                             <<97, 97, 122, 120>>, <<122, 122, 122, 122>>, <<97, 98>> }}
      TypedDraws ==
        {[i \in 1..SEED_WORDS_LENGTH |-> IF i = p THEN a ELSE 0] :
           p \in 1..SEED_WORDS_LENGTH, a \in RawSamples}
          \cup {[i \in 1..SEED_WORDS_LENGTH |-> a] : a \in RawSamples}
      EditedDraws == {[i \in 1..SEED_WORDS_LENGTH |-> a] : a \in {0, 65535}}
      StyledEdits ==
        {NoEdit, Edit("drop", 0, <<>>), Edit("set", 13, dictionary[300]),
         Edit("set", 14, dictionary[0])}
      Styles == {"plain", "doubled", "padded", "upper", "mixed"}
  IN  {Entry(random, NoEdit, "plain") : random \in TypedDraws}
        \cup {Entry(random, edit, "plain") : random \in EditedDraws, edit \in Edits}
        \cup {Entry(random, edit, style) :
                random \in EditedDraws, edit \in StyledEdits, style \in Styles}

\* What the user types for an entry.
Typed(entry) ==
  LET ToUpperCase(str) ==
        [i \in 1..Len(str) |-> IF str[i] \in 97..122 THEN str[i] - 32 ELSE str[i]]
      Written(words, style) ==
        CASE style = "doubled" -> Join(words, <<Space, Space>>)
          [] style = "padded" -> <<Space, 9>> \o Join(words, <<Space>>) \o <<10, Space>>
          [] style = "upper" -> ToUpperCase(Join(words, <<Space>>))
          [] style = "mixed" ->
               Join([i \in 1..Len(words) |->
                       ToUpperCase(SubSeq(words[i], 1, 1)) \o Tail(words[i])],
                    <<Space>>)
          [] OTHER -> Join(words, <<Space>>)
  IN  Written(Edited(Split(generatePhrase(entry.random), Space), entry.edit), entry.style)

\* One call of the codec: its name, what it was given and what it returned.
NoCall == [op |-> "none", arg |-> <<>>, res |-> <<>>]
CodecCall(op, arg, res) ==
  /\ codec = NoCall
  /\ codec' = [op |-> op, arg |-> arg, res |-> res]
  /\ UNCHANGED <<storedSeed, storedEmail, phase, permissionsProvider, providers, events,
                 writes, calls, clientExec, originalExecuteRequest, threads, portal,
                 setupErrors, attempts, host, display, seedPage>>

\* goToSignUp: generatePhrase()
GeneratePhraseCall(random) == CodecCall("generatePhrase", random, generatePhrase(random))

\* signIn, signUp: validatePhrase(phraseValue)
ValidatePhraseCall(entry) == CodecCall("validatePhrase", entry, validatePhrase(Typed(entry)))

SeedWordsToSeedCall(seedWords) == CodecCall("seedWordsToSeed", seedWords, PackedSeed(seedWords))

HashToChecksumWordsCall(h) == CodecCall("hashToChecksumWords", h, hashToChecksumWords(h))

\* generateChecksum of the older revision: hashToChecksum(h)
HashToChecksumCall(h) == CodecCall("hashToChecksum", h, hashToChecksum(h))

\* validatePhrase: the scan of the dictionary for the prefix of one word.
ScanCall(prefix, bound) ==
  CodecCall("scan", [prefix |-> prefix, bound |-> bound], Scan(prefix, 0, bound))

\* ------------------------------------------------ seed provider display
DisplayIds == 1 .. NDisplays

\* A run of runSeedProviderDisplay: where its executor waits ("handshake" in
\* connectSeedProvider, "call" for getRootSeed), how `promise` settled and the
\* value it resolved with, the iframe behind seedFrame, the connection behind
\* seedConnection, and the listeners of monitorWindowError.
\* [pc, settled, value, seedFrame, seedConnection, listeners]

\* resolve or reject of `promise`, and the .finally callback that follows the
\* first of them: removeChild(seedFrame) if seedFrame is set,
\* seedConnection.close() if seedConnection is set, controllerError.cleanup().
\* A promise that is settled ignores resolve and reject.
Settle(run, how, value) ==
  IF run.settled # "pending" THEN run
  ELSE [run EXCEPT !.settled = how, !.value = value,
                   !.seedFrame = IF @ = "attached" THEN "removed" ELSE @,
                   !.seedConnection = IF @ = "open" THEN "closed" ELSE @,
                   !.listeners = "cleaned"]

\* runSeedProviderDisplay is called: monitorWindowError() listens, the
\* executor creates the iframe (launchSeedProvider), sets seedFrame and starts
\* the handshake of connectSeedProvider.
RunSeedProviderDisplay(d) ==
  /\ display[d].pc = "idle"
  /\ display' = [display EXCEPT ![d] = [@ EXCEPT !.pc = "handshake", !.seedFrame = "attached",
                                                 !.listeners = "on"]]
  /\ UNCHANGED <<storedSeed, storedEmail, phase, permissionsProvider, providers, events,
                 writes, calls, clientExec, originalExecuteRequest, threads, portal,
                 setupErrors, attempts, host, codec, seedPage>>

\* ParentHandshake resolves: the executor, which rejecting `promise` does not
\* stop, sets seedConnection and calls getRootSeed on it.
ConnectSeedProviderDone(d) ==
  /\ display[d].pc = "handshake"
  /\ display' = [display EXCEPT ![d] = [@ EXCEPT !.pc = "call", !.seedConnection = "open"]]
  /\ UNCHANGED <<storedSeed, storedEmail, phase, permissionsProvider, providers, events,
                 writes, calls, clientExec, originalExecuteRequest, threads, portal,
                 setupErrors, attempts, host, codec, seedPage>>

\* ParentHandshake rejects (no answer within the attempts): catch (err) { reject(err) }
ConnectSeedProviderFails(d) ==
  /\ display[d].pc = "handshake"
  /\ display' = [display EXCEPT ![d] = [Settle(@, "rejected", Null) EXCEPT !.pc = "ended"]]
  /\ UNCHANGED <<storedSeed, storedEmail, phase, permissionsProvider, providers, events,
                 writes, calls, clientExec, originalExecuteRequest, threads, portal,
                 setupErrors, attempts, host, codec, seedPage>>

\* A window error or close (also catchError, called by the seed page, which
\* dispatches the error event): promiseError of every run that listens
\* rejects, and promiseError.catch rejects `promise`.  The executors stay
\* where they wait.
WindowError ==
  /\ \E d \in DisplayIds : display[d].listeners = "on"
  /\ display' = [d \in DisplayIds |->
                   IF display[d].listeners = "on" THEN Settle(display[d], "rejected", Null)
                   ELSE display[d]]
  /\ UNCHANGED <<storedSeed, storedEmail, phase, permissionsProvider, providers, events,
                 writes, calls, clientExec, originalExecuteRequest, threads, portal,
                 setupErrors, attempts, host, codec, seedPage>>

\* The seed page answers the getRootSeed call, which it can while its frame is
\* there and the connection is open: resolve(seed), or the call throws and
\* catch (err) { reject(err) }.
GetRootSeedReturns(d, seed) ==
  /\ display[d].pc = "call"
  /\ display[d].seedFrame = "attached"
  /\ display[d].seedConnection = "open"
  /\ display' = [display EXCEPT ![d] =
                   [Settle(@, IF seed = Null THEN "rejected" ELSE "resolved", seed)
                      EXCEPT !.pc = "ended"]]
  /\ UNCHANGED <<storedSeed, storedEmail, phase, permissionsProvider, providers, events,
                 writes, calls, clientExec, originalExecuteRequest, threads, portal,
                 setupErrors, attempts, host, codec, seedPage>>

\* ------------------------------------------------------------ seed page
\* let readySeed: Uint8Array | null = null (`ready` when it is not null; the
\* value is the set of the one seed, or empty), with the text it was made from;
\* the promise of getRootSeed ("idle" until the UI calls it, then "polling",
\* then "resolved") and what it resolved with; what the last signIn or signUp
\* came to ("alert", "thrown" or "set").
\* [ready, readySeed, phrase, seeds, getRootSeed, handed, handedPhrase, last]

\* handleSeed(seed)
handleSeed(page, seed, phraseValue) ==
  [page EXCEPT !.ready = TRUE, !.readySeed = seed, !.phrase = phraseValue, !.seeds = @ + 1,
               !.last = "set"]

\* signIn with the valid flag of validatePhrase ignored.
SignIn_validIgnored(phraseValue) ==
  /\ seedPage.seeds < MaxSeeds
  /\ LET r == validatePhrase(phraseValue)
     IN  seedPage' = IF phraseValue = <<>> THEN [seedPage EXCEPT !.last = "alert"]
                     ELSE handleSeed(seedPage, r.seed, phraseValue)
  /\ UNCHANGED <<storedSeed, storedEmail, phase, permissionsProvider, providers, events,
                 writes, calls, clientExec, originalExecuteRequest, threads, portal,
                 setupErrors, attempts, host, codec, display>>

\* signIn: an empty text or a phrase that validatePhrase rejects is answered by
\* an alert; the seed of a valid phrase goes to handleSeed.
SignIn(phraseValue) ==
  /\ seedPage.seeds < MaxSeeds
  /\ LET r == validatePhrase(phraseValue)
     IN  seedPage' = IF phraseValue = <<>> THEN [seedPage EXCEPT !.last = "alert"]
                     ELSE IF ~ r.valid \/ r.seed = {} THEN [seedPage EXCEPT !.last = "alert"]
                     ELSE handleSeed(seedPage, r.seed, phraseValue)
  /\ UNCHANGED <<storedSeed, storedEmail, phase, permissionsProvider, providers, events,
                 writes, calls, clientExec, originalExecuteRequest, threads, portal,
                 setupErrors, attempts, host, codec, display>>

\* phraseToSeed(phrase): the seed of the sanitized phrase; `thrown` when
\* validatePhrase rejects it.
phraseToSeed(phrase) ==
  LET r == validatePhrase(sanitizePhrase(phrase))
  IN  [thrown |-> ~ r.valid \/ r.seed = {}, seed |-> r.seed]

\* signUp: handleSeed(phraseToSeed(phraseValue)); the text field holds the
\* generated phrase as the user left it.
SignUp(phraseValue) ==
  /\ seedPage.seeds < MaxSeeds
  /\ LET r == phraseToSeed(phraseValue)
     IN  seedPage' = IF r.thrown THEN [seedPage EXCEPT !.last = "thrown"]
                     ELSE handleSeed(seedPage, r.seed, phraseValue)
  /\ UNCHANGED <<storedSeed, storedEmail, phase, permissionsProvider, providers, events,
                 writes, calls, clientExec, originalExecuteRequest, threads, portal,
                 setupErrors, attempts, host, codec, display>>

\* The MySky UI calls getRootSeed: checkFunc is put on an interval.
GetRootSeedCall ==
  /\ seedPage.getRootSeed = "idle"
  /\ seedPage' = [seedPage EXCEPT !.getRootSeed = "polling"]
  /\ UNCHANGED <<storedSeed, storedEmail, phase, permissionsProvider, providers, events,
                 writes, calls, clientExec, originalExecuteRequest, threads, portal,
                 setupErrors, attempts, host, codec, display>>

\* checkFunc runs with a ready seed: resolve(readySeed).  Without one it
\* changes nothing.
CheckFunc ==
  /\ seedPage.getRootSeed = "polling"
  /\ seedPage.ready
  /\ seedPage' = [seedPage EXCEPT !.getRootSeed = "resolved", !.handed = seedPage.readySeed,
                                  !.handedPhrase = seedPage.phrase]
  /\ UNCHANGED <<storedSeed, storedEmail, phase, permissionsProvider, providers, events,
                 writes, calls, clientExec, originalExecuteRequest, threads, portal,
                 setupErrors, attempts, host, codec, display>>

\* ---------------------------------------------------------- specification
InitFrame ==
  /\ storedEmail = Null
  /\ phase = "start"
  /\ permissionsProvider = {}
  /\ providers = [p \in ProvIds |-> [hs |-> "none", seed |-> Null, closeReq |-> FALSE, closed |-> FALSE]]
  /\ events = <<>>
  /\ writes = 0
  /\ calls = [c \in CallIds |-> IdleCall]
  /\ clientExec = <<>>
  /\ originalExecuteRequest = {}
  /\ threads = [t \in {"app", "logout"} |->
                 [pc |-> "idle", stack |-> <<>>, errors |-> <<>>, status |-> "none", code |-> 0,
                  sent |-> <<>>, replies |-> <<>>, hadSeed |-> FALSE, writesAtStart |-> 0]]
  /\ portal = <<>>
  /\ setupErrors = 0
  /\ attempts = [a \in AttemptIds |-> IdleAttempt]
  /\ codec = NoCall
  /\ display = [d \in DisplayIds |->
                 [pc |-> "idle", settled |-> "pending", value |-> Null, seedFrame |-> "unset",
                  seedConnection |-> "unset", listeners |-> "none"]]
  /\ seedPage =
       [ready |-> FALSE, readySeed |-> {}, phrase |-> <<>>, seeds |-> 0, getRootSeed |-> "idle",
        handed |-> {}, handedPhrase |-> <<>>, last |-> "none"]

\* A browser with web storage.
Init ==
  /\ InitFrame
  /\ host = HostStorage
  /\ storedSeed \in {Null, "S1", BadLength}

\* Any of the browsers; the seed key can hold something only where there is
\* storage.
InitHost ==
  /\ InitFrame
  /\ host \in {HostStorage, HostDisabled, HostUnsupported}
  /\ storedSeed \in IF host = HostStorage THEN {Null, "S1", BadLength, Unparseable, Empty}
                    ELSE {Null}

\* MySky.initialize, the UI's writes, the storage listener and the handshakes,
\* for the emails in `emails` (Null: no email is found).
Lifecycle(emails) ==
  \/ InitializeStart
  \/ \E email \in emails : InitializeSettings(email)
  \/ InitializeFails
  \/ \E v \in Seeds \cup Malformed \cup {Null}, e \in emails : UIWrite(v, e)
  \/ StorageEvent
  \/ \E p \in ProvIds : HandshakeDone(p)
  \/ \E p \in ProvIds : HandshakeFails(p)

\* The calls of the parent that go through the permission gateway.
Gateway ==
  \/ \E c \in CallIds, path \in Paths, d \in BOOLEAN : GetEncryptedPathSeedCall(c, path, d)
  \/ \E c \in CallIds, k \in DataKeys, path \in Paths : SignRegistryEntryCall(c, k, path)
  \/ \E c \in CallIds, k \in DataKeys, path \in Paths : SignEncryptedRegistryEntryCall(c, k, path)
  \/ \E c \in CallIds : SignMessageCall(c)
  \/ \E c \in CallIds, path \in Paths : CheckLoginCall(c, Permission(path, Hidden, Read))
  \/ \E c \in CallIds : \E failed \in {{}, {calls[c].perm}, {OtherPerm}} : ProviderAnswer(c, failed)

\* The requests to the portal: through the interceptor, and logout.
Session ==
  \/ AppRequest
  \/ \E status \in {200, 401, 500} : AppReply(status)
  \/ LogoutCall
  \/ \E status \in {200, 401, 500} : LogoutReply(status)

\* Login and register attempts made with a client whose executeRequest sends
\* each request once (the plain client of the unit tests).
NextAttempt ==
  LET
      Challenges ==
        {<<"4", "9", "0", "c", "c", "f", "f", "b", "b", "b", "c", "c", "3", "0", "4", "6", "5", "2", "4", "8", "8", "9", "0", "3", "c", "a", "4", "2", "5", "d", "4", "2", "4", "9", "0", "c", "c", "f", "f", "b", "b", "b", "c", "c", "3", "0", "4", "6", "5", "2", "4", "8", "8", "9", "0", "3", "c", "a", "4", "2", "5", "d", "4", "2">>,
         ChallengeUpper, ChallengeNotHex, ChallengeShort}
      \* The portal URLs of the client: https://siasky.net, https://dev1.siasky.dev/,
      \* http://localhost and https://siasky.net:8443.
      PortalUrls ==
        { <<104, 116, 116, 112, 115, 58, 47, 47, 115, 105, 97, 115, 107, 121, 46, 110, 101, 116>>,
          <<104, 116, 116, 112, 115, 58, 47, 47, 100, 101, 118, 49, 46, 115, 105, 97, 115, 107, 121, 46, 100, 101, 118, 47>>,
          <<104, 116, 116, 112, 58, 47, 47, 108, 111, 99, 97, 108, 104, 111, 115, 116>>,
          <<104, 116, 116, 112, 115, 58, 47, 47, 115, 105, 97, 115, 107, 121, 46, 110, 101, 116, 58, 56, 52, 52, 51>> }
  IN
  \/ \E a \in AttemptIds, kind \in {"login", "register", "registerUserPubkey"}, seed \in Seeds, tweak \in Tweaks,
        url \in PortalUrls :
        AttemptStart(a, kind, seed, tweak, IF kind = "register" THEN "E1" ELSE Null, url)
  \/ \E a \in AttemptIds, status \in {200, 500}, challenge \in Challenges :
        AttemptChallenge(a, status, challenge)
  \/ \E a \in AttemptIds, status \in {200, 500} : AttemptResult(a, status)
InitAttempt == Init /\ storedSeed = Null
SpecAttempt == InitAttempt /\ [][NextAttempt]_vars

\* The seed page: one call of the phrase codec.
\* seedWordsToSeed is given the seed words of the draws; hashToChecksumWords
\* digests with every sample in h[0], h[1], h[2], and h[3] all zeros or all ones.
NextCodec ==
  LET SeedWordSamples == {SeedWordsFromRandom(random) : random \in Draws}
      ByteSamples == {r % 256 : r \in RawSamples}
      Digests ==
        {[k \in 1..64 |-> CASE k = 1 -> a [] k = 2 -> b [] k = 3 -> c [] k = 4 -> d [] OTHER -> 0] :
           a \in ByteSamples, b \in ByteSamples, c \in ByteSamples, d \in {0, 255}}
      \* The prefixes scanned for: those of some entries; "aaz" and "paz",
      \* which lie between entries; "AAA", below every entry; "zzz", above.
      ScannedPrefixes ==
        {dictionaryPrefixes[j] : j \in {0, 1, 255, 256, 300, 1023}}
          \cup {<<97, 97, 122>>, <<112, 97, 122>>, <<65, 65, 65>>, <<122, 122, 122>>}
  IN  \/ \E random \in Draws : GeneratePhraseCall(random)
      \/ \E entry \in Entries : ValidatePhraseCall(entry)
      \/ \E seedWords \in SeedWordSamples : SeedWordsToSeedCall(seedWords)
      \/ \E h \in Digests : HashToChecksumWordsCall(h)
      \/ \E h \in Digests : HashToChecksumCall(h)
      \/ \E prefix \in ScannedPrefixes, bound \in {256, DictionaryLength} :
            ScanCall(prefix, bound)
InitCodec == Init /\ storedSeed = Null
SpecCodec == InitCodec /\ [][NextCodec]_vars

\* The MySky UI: runs of runSeedProviderDisplay, the handshakes, the answers
\* of the seed page and the window's errors.
NextDisplay ==
  \/ \E d \in DisplayIds : RunSeedProviderDisplay(d)
  \/ \E d \in DisplayIds : ConnectSeedProviderDone(d)
  \/ \E d \in DisplayIds : ConnectSeedProviderFails(d)
  \/ WindowError
  \/ \E d \in DisplayIds, seed \in Seeds \cup {Null} : GetRootSeedReturns(d, seed)
SpecDisplay == Init /\ [][NextDisplay]_vars

\* The seed page: the user signs in or up with a phrase of Entries (or, to
\* sign in, without any text), the UI calls getRootSeed, checkFunc runs.
NextPage ==
  \/ \E phraseValue \in {Typed(entry) : entry \in Entries} \cup {<<>>} : SignIn(phraseValue)
  \/ \E entry \in Entries : SignUp(Typed(entry))
  \/ GetRootSeedCall
  \/ CheckFunc
SpecPage == InitCodec /\ [][NextPage]_vars

Next ==
  \/ Lifecycle(Emails \cup {Null}) \/ Gateway \/ Session \/ NextAttempt \/ NextCodec
  \/ \E c \in CallIds : UserIDCall(c)
  \/ NextDisplay \/ NextPage

\* The whole frame.
Spec == Init /\ [][Next]_vars

\* The frame while the parent makes gateway calls, no email is remembered and
\* no portal request is made: no gateway call reads or writes the interceptor.
NextGateway == Lifecycle({Null}) \/ Gateway
SpecGateway == Init /\ [][NextGateway]_vars

\* SpecGateway with the scheduling the platform gives: a live provider
\* answers a request it received, ParentHandshake resolves or runs out of
\* attempts, and a queued storage event is delivered.
FairGateway ==
  /\ \A c \in CallIds :
       WF_vars(\E failed \in {{}, {calls[c].perm}, {OtherPerm}} : ProviderAnswer(c, failed))
  /\ \A p \in ProvIds : WF_vars(HandshakeDone(p) \/ HandshakeFails(p))
  /\ WF_vars(StorageEvent)
SpecGatewayFair == SpecGateway /\ FairGateway

\* The frame while the parent makes gateway calls, asks for the user id and
\* logs out; no email is remembered, so that logout's request is sent as it is.
SpecLogout ==
  Init /\ [][ \/ NextGateway
              \/ \E c \in CallIds : UserIDCall(c)
              \/ LogoutCall
              \/ \E status \in {200, 401, 500} : LogoutReply(status) ]_vars

\* The frame and its gateway calls in any of the browsers, whatever the seed
\* key holds when the frame starts.
SpecHost == InitHost /\ [][NextGateway]_vars

\* The frame while it talks to the portal and the parent makes no gateway call.
SpecSession == Init /\ [][Lifecycle(Emails \cup {Null}) \/ Session]_vars

\* ================================================================ claims
GatedOps == {"getEncryptedPathSeed", "signRegistryEntry", "signEncryptedRegistryEntry"}
KeyMaterialEvents == {"readSeed", "pathSeed", "keyPair", "sign"}

LogIndexes(c) == 1 .. Len(calls[c].log)

\* The provider's answer at place i of call c's log lists the requested
\* permission in failedPermissions.
DeniedAt(c, i) ==
  /\ calls[c].log[i].ev = "answer"
  /\ calls[c].log[i].perm \in calls[c].log[i].failed

GrantedAt(c, i) ==
  /\ calls[c].log[i].ev = "answer"
  /\ calls[c].log[i].failed = {}

Denied(c) == \E i \in LogIndexes(c) : DeniedAt(c, i)

\* ---- C1
\* C1 as stated: a gated call whose checkPermissions answer lists the
\* requested permission in failedPermissions fails with 'Permission was not
\* granted' and has never read the stored seed, derived a key or path seed, or
\* signed.
C1_DeniedNeverTouchesKeyMaterial ==
  \A c \in CallIds :
    (calls[c].op \in GatedOps /\ Denied(c)) =>
      /\ calls[c].status = "error"
      /\ calls[c].error = "Permission was not granted"
      /\ \A i \in LogIndexes(c) : calls[c].log[i].ev \notin KeyMaterialEvents

\* C1 amended: a gated call whose checkPermissions answer lists the requested
\* permission in failedPermissions fails with 'Permission was not granted',
\* returns nothing, never derives a key pair or signs, and does nothing after
\* that answer.  getEncryptedPathSeed and signRegistryEntry have then never
\* read the seed; signEncryptedRegistryEntry, when it is its Hidden Write
\* check that is denied, has read the seed and derived the path seed once,
\* after its Hidden Read check was granted.
C1_DeniedStopsTheCall ==
  \A c \in CallIds :
    (calls[c].op \in GatedOps /\ Denied(c)) =>
      /\ calls[c].status = "error"
      /\ calls[c].error = "Permission was not granted"
      /\ calls[c].value = <<>>
      /\ DeniedAt(c, Len(calls[c].log))
      /\ \A i \in LogIndexes(c) : calls[c].log[i].ev \notin {"keyPair", "sign"}
      /\ \A i \in LogIndexes(c) :
           calls[c].log[i].ev \in {"readSeed", "pathSeed"} =>
             /\ calls[c].op = "signEncryptedRegistryEntry"
             /\ calls[c].perm = Permission(calls[c].path, Hidden, Write)
             /\ i \in {3, 4}
             /\ GrantedAt(c, 2)
             /\ calls[c].log[2].perm = Permission(calls[c].path, Hidden, Read)

\* C1 witness: signEncryptedRegistryEntry was denied its Hidden Write check
\* after its Hidden Read check was granted.
C1_Witness ==
  \E c \in CallIds :
    /\ calls[c].op = "signEncryptedRegistryEntry"
    /\ Denied(c)
    /\ calls[c].perm.permType = Write
    /\ calls[c].pc = "done"

\* ---- C2
SentBefore(c, i) ==
  \E j \in 1 .. i - 1, k \in 1 .. i - 1 :
    /\ j < k
    /\ calls[c].log[j].ev = "sent"
    /\ calls[c].log[k].ev = "answer"
    /\ calls[c].log[k].perm = calls[c].log[j].perm

CheckedFirst(c) ==
  /\ \A i \in LogIndexes(c) : calls[c].log[i].ev \in KeyMaterialEvents => SentBefore(c, i)
  /\ calls[c].status = "ok" => SentBefore(c, Len(calls[c].log) + 1)

MismatchError == "Path does not match the data key"

\* entry.dataKey differs from the tweak of the requested path: for a hidden
\* entry, from the tweak of the path seed of every seed.
MismatchDiscoverable(c) ==
  /\ calls[c].op = "signRegistryEntry"
  /\ calls[c].dataKey # deriveDiscoverableFileTweak(calls[c].path)

MismatchEncrypted(c) ==
  /\ calls[c].op = "signEncryptedRegistryEntry"
  /\ \A s \in Seeds :
       calls[c].dataKey # deriveEncryptedFileTweak(PathSeed(s, calls[c].path, FALSE))

NothingSent(c) == \A i \in LogIndexes(c) : calls[c].log[i].ev # "sent"

\* C3 as stated: signRegistryEntry and signEncryptedRegistryEntry, given an
\* entry whose data key differs from the tweak of the requested path, fail
\* with the mismatch error and have sent no checkPermissions request.
C3_MismatchFailsBeforeAnyCheck ==
  \A c \in CallIds :
    (MismatchDiscoverable(c) \/ MismatchEncrypted(c)) =>
      /\ NothingSent(c)
      /\ calls[c].pc = "done" => calls[c].error = MismatchError

\* C3 amended: signRegistryEntry, given an entry whose data key differs from
\* the tweak of the requested path, fails at once with the mismatch error and
\* sends no checkPermissions request.  signEncryptedRegistryEntry computes the
\* tweak from the path seed it gets from getEncryptedPathSeed, so its Hidden
\* Read check is sent first: given such an entry it never sends the Hidden
\* Write check, never derives a key pair or signs and never returns a
\* signature, and when it fails with the mismatch error it has sent exactly
\* the Hidden Read check, was granted it, read the seed and derived the path
\* seed.
C3_MismatchFailsBeforeWriteCheck ==
  \A c \in CallIds :
    /\ MismatchDiscoverable(c) =>
         /\ calls[c].pc = "done"
         /\ calls[c].error = MismatchError
         /\ calls[c].log = <<>>
    /\ MismatchEncrypted(c) =>
         /\ calls[c].status # "ok"
         /\ \A i \in LogIndexes(c) :
              /\ calls[c].log[i].ev \notin {"keyPair", "sign"}
              /\ calls[c].log[i].perm.permType # Write
    /\ (MismatchEncrypted(c) /\ \E i \in LogIndexes(c) : calls[c].log[i].ev = "pathSeed") =>
         /\ calls[c].pc = "done"
         /\ calls[c].error = MismatchError
    /\ (calls[c].op = "signEncryptedRegistryEntry" /\ calls[c].error = MismatchError) =>
         /\ Len(calls[c].log) = 4
         /\ calls[c].log[1] = Event("sent", Permission(calls[c].path, Hidden, Read), {})
         /\ calls[c].log[2] = Event("answer", Permission(calls[c].path, Hidden, Read), {})
         /\ calls[c].log[3].ev = "readSeed"
         /\ calls[c].log[4].ev = "pathSeed"

\* C3 witness: both calls were made with a data key of another path or seed
\* and failed with the mismatch error.
C3_Witness ==
  \E c, d \in CallIds :
    /\ MismatchDiscoverable(c) /\ calls[c].error = MismatchError
    /\ calls[d].op = "signEncryptedRegistryEntry" /\ calls[d].error = MismatchError

\* ---- C4
\* Place i of call c's log is an answer to the request the call sent just
\* before it.
AnswersOwnRequest(c, i) ==
  /\ i > 1
  /\ calls[c].log[i - 1] = Event("sent", calls[c].log[i].perm, {})

GrantedOwn(c, perm) ==
  \E i \in LogIndexes(c) :
    /\ GrantedAt(c, i)
    /\ calls[c].log[i].perm = perm
    /\ AnswersOwnRequest(c, i)

\* C4: a grant is never reused across calls.  Every answer a gated call acts
\* on answers a request that call sent itself; a call that returns a result
\* was itself granted every permission it needs; and a call whose own answer
\* has failed permissions fails with 'Permission was not granted', also when
\* the same permission was granted to an earlier call.
C4_NoGrantReuse ==
  \A c \in CallIds : calls[c].op \in GatedOps =>
    /\ \A i \in LogIndexes(c) : calls[c].log[i].ev = "answer" => AnswersOwnRequest(c, i)
    /\ calls[c].status = "ok" =>
         CASE calls[c].op = "getEncryptedPathSeed" ->
                GrantedOwn(c, Permission(calls[c].path, Hidden, Read))
           [] calls[c].op = "signRegistryEntry" ->
                GrantedOwn(c, Permission(calls[c].path, Discoverable, Write))
           [] OTHER ->
                /\ GrantedOwn(c, Permission(calls[c].path, Hidden, Read))
                /\ GrantedOwn(c, Permission(calls[c].path, Hidden, Write))
    /\ \A i \in LogIndexes(c) :
         (calls[c].log[i].ev = "answer" /\ calls[c].log[i].failed # {}) =>
           /\ calls[c].status = "error"
           /\ calls[c].error = "Permission was not granted"
           /\ i = Len(calls[c].log)

\* C4 witness: a call was denied a permission that an earlier call had been
\* granted before this call started.
C4_Witness ==
  \E c \in CallIds :
    /\ calls[c].op \in GatedOps
    /\ Denied(c)
    /\ calls[c].perm \in calls[c].grantedBefore
    /\ calls[c].status = "error"

\* ---- C5
Kinds(t) == [i \in 1 .. Len(threads[t].sent) |-> threads[t].sent[i].kind]

IsPrefix(a, b) == Len(a) <= Len(b) /\ a = SubSeq(b, 1, Len(a))

Count(t, kind) == Cardinality({i \in 1 .. Len(threads[t].sent) : threads[t].sent[i].kind = kind})

\* C5: a request that is not a logout request sends, after a first 401, one
\* login GET, one login POST and the request once more, and nothing else; its
\* outcome is the portal's last answer; after a first answer other than 401
\* nothing more is sent.
C5_OneReloginOneRetry ==
  LET t == threads["app"]
  IN  /\ IsPrefix(Kinds("app"), <<"app", "loginGET", "loginPOST", "app">>)
      /\ (t.replies # <<>> /\ t.replies[1] # 401) => Len(t.sent) = 1
      /\ t.pc = "done" => t.code = t.replies[Len(t.replies)]

\* ---- C6
\* C6: MySky.logout() sends the logout POST and no login GET or POST,
\* whatever the portal answers.
C6_LogoutNeverRelogins ==
  \A i \in 1 .. Len(threads["logout"].sent) :
    threads["logout"].sent[i].kind \notin {"loginGET", "loginPOST"}

\* ---- C7
\* A step of the storage listener that calls setupAutoRelogin while auto-relogin
\* is set up.
SetupCalledWhileSetUp ==
  /\ phase = "ready"
  /\ events # <<>>
  /\ events' = Tail(events)
  /\ Head(events) \notin {Null, Unparseable}
  /\ storedEmail # Null
  /\ originalExecuteRequest # {}

\* C7: a call of setupAutoRelogin made while auto-relogin is set up throws the
\* already-set-up error and leaves client.executeRequest and the saved
\* original unchanged; the error is thrown in no other case; the request
\* function is never wrapped more than once and the saved function is the
\* client's original one.
C7_SetupRefusesSecondWrap ==
  [][ /\ SetupCalledWhileSetUp =>
           /\ setupErrors' = setupErrors + 1
           /\ UNCHANGED <<clientExec, originalExecuteRequest>>
      /\ setupErrors' # setupErrors =>
           /\ originalExecuteRequest # {}
           /\ UNCHANGED <<clientExec, originalExecuteRequest>>
      /\ Len(clientExec') <= 1
      /\ originalExecuteRequest' # {} =>
           (originalExecuteRequest' = {<<>>} /\ Len(clientExec') = 1) ]_vars

\* C7 witness: setupAutoRelogin was refused and the one wrapper is in place.
C7_Witness ==
  /\ setupErrors > 0
  /\ Len(clientExec) = 1
  /\ originalExecuteRequest = {<<>>}

\* ---- C8
\* C8: when MySky.logout() finishes, normally or by throwing, the seed is
\* absent from storage (no UI write of the seed key having come after logout
\* started), client.executeRequest is the original function, no saved original
\* remains, and exactly one logout POST was sent.
C8_LogoutLeavesNothing ==
  [][ (threads["logout"].pc = "wait" /\ threads'["logout"].pc = "done") =>
        /\ writes' = threads'["logout"].writesAtStart => storedSeed' = Null
        /\ clientExec' = <<>>
        /\ originalExecuteRequest' = {}
        /\ Cardinality({i \in 1 .. Len(threads'["logout"].sent) :
                          threads'["logout"].sent[i].kind = "logoutPOST"}) = 1 ]_vars

\* ---- C9
\* C9: when a seed was stored and the portal answered the logout POST with
\* 401, MySky.logout() completes without throwing.
C9_Logout401NotReported ==
  LET t == threads["logout"]
  IN  ( /\ t.pc = "done"
        /\ t.hadSeed
        /\ \E i \in 1 .. Len(t.replies) : t.sent[i].kind = "logoutPOST" /\ t.replies[i] = 401 )
      => t.status = "ok"

\* ---- C10
AlreadyLoggedOut == "MySky user is already logged out"
PortalLogoutFailed == "portal logout failed"

\* C10: logout throws once, at the end, and exactly when it recorded a
\* failure.  Without a stored seed it still sends the logout POST and throws
\* with 'already logged out'; when the logout request fails with a status
\* other than 401 that failure is in the thrown error, beside 'already logged
\* out' if both happened; with a seed and a logout request that returned or
\* failed with 401 nothing is thrown.
C10_LogoutAggregatesErrors ==
  LET t == threads["logout"]
  IN  /\ t.pc = "wait" => (t.status = "none" /\ Count("logout", "logoutPOST") >= 1)
      /\ t.pc = "done" =>
           /\ t.status = "error" <=> t.errors # <<>>
           /\ t.status = "ok" <=> t.errors = <<>>
           /\ ~ t.hadSeed => (t.errors # <<>> /\ t.errors[1] = AlreadyLoggedOut)
           /\ t.code \notin {200, 401} => t.errors[Len(t.errors)] = PortalLogoutFailed
           /\ (~ t.hadSeed /\ t.code \notin {200, 401}) =>
                t.errors = <<AlreadyLoggedOut, PortalLogoutFailed>>
           /\ (t.hadSeed /\ t.code \in {200, 401}) => t.errors = <<>>
           /\ Count("logout", "logoutPOST") >= 1

\* C10 witness: logout found no seed, the logout request failed with 500, and
\* the one thrown error holds both failures.
C10_Witness ==
  LET t == threads["logout"]
  IN  /\ t.pc = "done"
      /\ ~ t.hadSeed
      /\ t.code = 500
      /\ t.status = "error"
      /\ Len(t.errors) = 2

\* ---- C11
\* A step of the storage listener for an event whose new value is a seed.
SeedEventDelivered ==
  /\ phase = "ready"
  /\ events # <<>>
  /\ events' = Tail(events)
  /\ Head(events) \in Seeds

\* The listener retired the provider that was current: closed at once when its
\* handshake was done, to be closed when it completes while it is pending.
CurrentRetired ==
  \A p \in permissionsProvider :
    /\ providers[p].hs = "ready" => providers'[p].closed
    /\ providers[p].hs = "pending" => providers'[p].closeReq
    /\ providers'[p].hs = providers[p].hs

\* The listener launched a provider from the new seed and made it current.
LaunchedFrom(seed) ==
  \E p \in ProvIds :
    /\ providers[p].hs = "none"
    /\ providers'[p].hs = "pending"
    /\ providers'[p].seed = seed
    /\ permissionsProvider' = {p}

\* C11: on a storage event of the seed key whose new value is a seed, the
\* current provider is retired without waiting, a provider launched from the
\* new seed becomes current, and when an email is stored beside the seed it is
\* removed and auto-relogin is set up with the new seed and that email.
C11_SeedChangeSwapsProviderAndRelogin ==
  [][ SeedEventDelivered =>
        /\ CurrentRetired
        /\ LaunchedFrom(Head(events))
        /\ storedEmail # Null =>
             /\ storedEmail' = Null
             /\ clientExec' # <<>>
             /\ Head(clientExec') = Layer(Head(events), storedEmail) ]_vars

\* ---- C12
\* C12: MySky.initialize launches a provider exactly when a well-formed seed
\* is stored, and completes without waiting for that provider's handshake.
C12_InitializeDoesNotWait ==
  [][ (phase = "start" /\ phase' # "start") =>
        /\ phase' = "ready"
        /\ (permissionsProvider' # {}) <=> (storedSeed \in Seeds)
        /\ \A p \in permissionsProvider' :
             providers'[p].hs = "pending" /\ providers'[p].seed = storedSeed ]_vars

\* ---- C13
Launches(p) == providers[p].hs = "none" /\ providers'[p].hs # "none"

SentTo(c, p) == \E i \in 1 .. Len(calls[c].sentTo) : calls[c].sentTo[i] = {p}

\* C13: checks that start while a handshake is pending wait for that one
\* handshake.  No check creates a worker or starts a handshake: a provider is
\* launched only by initialize or by the storage listener, one at a time.  No
\* check is left waiting once the handshake is over, and all checks that
\* waited for the same handshake sent their request to its provider, or all
\* failed with the handshake's failure and sent it nothing.
C13_WaitersShareOneHandshake ==
  /\ [] \A c \in CallIds :
          /\ calls[c].pc = "awaitProvider" =>
               \A p \in calls[c].prov : providers[p].hs = "pending"
          /\ \A p \in calls[c].waitedFor :
               /\ providers[p].hs = "ready" => SentTo(c, p)
               /\ providers[p].hs = "failed" =>
                    /\ calls[c].status = "error"
                    /\ calls[c].error = "Handshake failed"
                    /\ ~ SentTo(c, p)
  /\ [][ /\ \A p, q \in ProvIds : (Launches(p) /\ Launches(q)) => p = q
         /\ (\E p \in ProvIds : Launches(p)) =>
              /\ calls' = calls
              /\ phase = "start" \/ (phase = "ready" /\ events # <<>> /\ events' = Tail(events)) ]_vars

\* C13 witness: two checks waited for the same handshake and both failed
\* with its failure.
C13_Witness ==
  \E c, d \in CallIds : \E p \in ProvIds :
    /\ c # d
    /\ p \in calls[c].waitedFor \cap calls[d].waitedFor
    /\ providers[p].hs = "failed"
    /\ calls[c].error = "Handshake failed"
    /\ calls[d].error = "Handshake failed"

\* ---- C14
CountEv(c, ev) == Cardinality({i \in LogIndexes(c) : calls[c].log[i].ev = ev})

\* C14: a check that sent its checkPermissions request to the provider that
\* was current when it started gets that provider's answer, also when a
\* storage event replaces the provider meanwhile; and no request is sent to
\* another provider than the one current when its check started.
C14_InFlightCheckCompletesOnItsProvider ==
  /\ [] \A c \in CallIds :
          /\ Len(calls[c].sentTo) <= Len(calls[c].startedWith)
          /\ \A i \in 1 .. Len(calls[c].sentTo) : calls[c].sentTo[i] = calls[c].startedWith[i]
  /\ \A c \in CallIds :
       (calls[c].pc = "awaitAnswer") ~> (CountEv(c, "answer") = CountEv(c, "sent"))

\* ---- C15
\* C15: every permission check completes: an operation that waits for the
\* handshake or for the provider's answer eventually returns or fails.
C15_EveryCheckCompletes ==
  \A c \in CallIds :
    (calls[c].pc \in {"awaitProvider", "awaitAnswer"}) ~> (calls[c].pc = "done")

\* ---- C16
\* C16: no request of a login attempt is sent a second time: the call of
\* client.executeRequest that login makes for its GET, and the one for its
\* POST, each send one request.
C16_LoginSendsEachRequestOnce ==
  \A t \in {"app", "logout"} :
    \A i \in 1 .. Len(threads[t].stack) :
      threads[t].stack[i].cfg.kind \in {"loginGET", "loginPOST"} =>
        threads[t].stack[i].pc # "retry"

\* ---- C17
Posted(a) == attempts[a].pc \in {"post", "done"} /\ Len(attempts[a].sent) = 2

\* The bytes at places from .. to of a sequence.
Slice(bytes, from, to) == [i \in 1 .. (to - from + 1) |-> bytes[from + i - 1]]

\* C17: the response in the POST decodes to the 32 challenge bytes, then the
\* bytes of 'skynet-portal-login' (login) or 'skynet-portal-register'
\* (register, registerUserPubkey), then the bytes of the portal recipient, and
\* is written in lower-case hex; the signature is over those bytes.  For the
\* same challenge, a login and a register response differ, and responses for
\* different recipients differ.
C17_ResponseBindsTypeAndRecipient ==
  /\ \A a \in AttemptIds : Posted(a) =>
       LET t == attempts[a]
           response == t.sent[2].response
           bytes == hexToUint8Array(response)
           type == IF t.kind = "login" THEN CHALLENGE_TYPE_LOGIN ELSE CHALLENGE_TYPE_REGISTER
           recipient == getPortalRecipient(t.url)
       IN  /\ \A i \in 1 .. Len(response) : \E v \in 1 .. 16 : HexLower[v] = response[i]
           /\ Len(bytes) = CHALLENGE_SIZE + Len(type) + Len(recipient)
           /\ Slice(bytes, 1, CHALLENGE_SIZE) = hexToUint8Array(t.challenge)
           /\ Slice(bytes, CHALLENGE_SIZE + 1, CHALLENGE_SIZE + Len(type)) = type
           /\ Slice(bytes, CHALLENGE_SIZE + Len(type) + 1, Len(bytes)) = recipient
           /\ t.sent[2].signature =
                Signature(PrivateKey(genPortalLoginKeypair(t.seed, t.tweak)), bytes)
  /\ \A a, b \in AttemptIds :
       (Posted(a) /\ Posted(b) /\ attempts[a].challenge = attempts[b].challenge) =>
         /\ (attempts[a].kind = "login" /\ attempts[b].kind # "login") =>
              attempts[a].sent[2].response # attempts[b].sent[2].response
         /\ getPortalRecipient(attempts[a].url) # getPortalRecipient(attempts[b].url) =>
              attempts[a].sent[2].response # attempts[b].sent[2].response

\* C17 witness: a login and a register were posted for the same challenge,
\* seed, tweak and portal.
C17_Witness ==
  \E a, b \in AttemptIds :
    /\ Posted(a) /\ Posted(b)
    /\ attempts[a].kind = "login" /\ attempts[b].kind = "register"
    /\ attempts[a].challenge = ChallengeUpper /\ attempts[b].challenge = ChallengeUpper
    /\ attempts[a].seed = attempts[b].seed
    /\ attempts[a].url = attempts[b].url

\* ---- C18
\* The challenge is a hex string of 32 bytes.
WellFormedChallenge(ch) ==
  /\ Len(ch) = 2 * CHALLENGE_SIZE
  /\ \A i \in 1 .. Len(ch) : \E v \in 1 .. 16 : HexLower[v] = ch[i] \/ HexUpper[v] = ch[i]

\* C18: when the GET returned a challenge that is not a hex string of 32
\* bytes, the attempt fails with a validation error, signs nothing and sends
\* no POST; and only then does it fail so.
C18_BadChallengeStopsTheAttempt ==
  \A a \in AttemptIds :
    LET t == attempts[a]
    IN  /\ (t.pc \in {"post", "done"} /\ t.replies[1] = 200 /\ ~ WellFormedChallenge(t.challenge)) =>
             /\ t.pc = "done"
             /\ t.status = "invalid"
             /\ t.signed = <<>>
             /\ Len(t.sent) = 1
             /\ t.sent[1].method = "GET"
        /\ t.status = "invalid" => ~ WellFormedChallenge(t.challenge)

\* C18 witness: one attempt got a challenge that is not hex, another one of
\* 31 bytes, and both failed with the validation error.
C18_Witness ==
  \E a, b \in AttemptIds :
    /\ attempts[a].status = "invalid" /\ attempts[a].challenge = ChallengeNotHex
    /\ attempts[b].status = "invalid" /\ attempts[b].challenge = ChallengeShort

\* ---- C19
\* What must not leave the frame: the seed, a key pair and its private half.
Secrets ==
  UNION { { <<"seed", s>>, genKeyPairFromSeed(s), PrivateKey(genKeyPairFromSeed(s)) } \cup
          UNION { { genPortalLoginKeypair(s, t), PrivateKey(genPortalLoginKeypair(s, t)) } :
                  t \in Tweaks \cup Emails } :
          s \in Seeds }

\* A request without the values derived from the seed.
Redacted(m) == [m EXCEPT !.pubKey = (m.pubKey # <<>>), !.signature = (m.signature # <<>>)]

SameButSeed(a, b) ==
  /\ attempts[a].kind = attempts[b].kind
  /\ attempts[a].tweak = attempts[b].tweak
  /\ attempts[a].email = attempts[b].email
  /\ attempts[a].url = attempts[b].url
  /\ attempts[a].challenge = attempts[b].challenge
  /\ attempts[a].replies = attempts[b].replies

MeantWords(entry) == Edited(Split(generatePhrase(entry.random), Space), entry.edit)
IsBytes(seq, n) == Len(seq) = n /\ \A i \in 1..n : seq[i] \in 0..255

\* C22: for every draw of thirteen values, the phrase generatePhrase builds
\* from them passes validatePhrase, which returns the 16 bytes packed from the
\* thirteen seed words (the drawn values reduced to ten bits, the thirteenth
\* to eight).
C22_GeneratedPhraseValidates ==
  (codec.op = "validatePhrase" /\ codec.arg.edit = NoEdit /\ codec.arg.style = "plain") =>
     LET seedWords == SeedWordsFromRandom(codec.arg.random)
     IN  /\ Typed(codec.arg) = generatePhrase(codec.arg.random)
         /\ \A i \in 1..SEED_WORDS_LENGTH :
              seedWords[i] \in 0..(IF i = SEED_WORDS_LENGTH THEN 255 ELSE 1023)
         /\ codec.res.valid
         /\ codec.res.error = NoError
         /\ codec.res.seed = {seedWordsToSeed(seedWords)}
         /\ \A seed \in codec.res.seed : IsBytes(seed, SEED_LENGTH)

C22_Witness ==
  /\ codec.op = "validatePhrase" /\ codec.arg.edit = NoEdit /\ codec.arg.style = "plain"
  /\ codec.arg.random[13] = 65535
  /\ codec.res.valid
  /\ \E seed \in codec.res.seed : seed[16] = 255

\* ---- C23
\* The prefixes of the dictionary, and of its first 256 entries.
AllPrefixes == {dictionaryPrefixes[j] : j \in DOMAIN dictionary}
FirstPrefixes == {dictionaryPrefixes[j] : j \in 0..255}
Resolves(words, i) ==
  Prefix(words[i]) \in (IF i = SEED_WORDS_LENGTH THEN FirstPrefixes ELSE AllPrefixes)
Recovered(word) == CHOOSE j \in DOMAIN dictionary : dictionaryPrefixes[j] = Prefix(word)
ChecksumAgrees(words) ==
  LET checksumWords ==
        generateChecksumWordsFromSeedWords([i \in 1..SEED_WORDS_LENGTH |-> Recovered(words[i])])
  IN  \A i \in 1..CHECKSUM_WORDS_LENGTH :
        Prefix(words[SEED_WORDS_LENGTH + i]) = dictionaryPrefixes[checksumWords[i]]

\* C23: a phrase of fifteen words is accepted exactly when every word has the
\* prefix of a dictionary entry within its bound and the prefixes of words 14
\* and 15 are those of the checksum words recomputed from the thirteen
\* recovered seed words; when all words resolve and a checksum prefix differs
\* the result is a checksum error without entropy.
C23_AcceptsIffResolvedAndChecksum ==
  (codec.op = "validatePhrase" /\ Len(MeantWords(codec.arg)) = PHRASE_LENGTH) =>
     LET words == MeantWords(codec.arg)
         allResolve == \A i \in 1..PHRASE_LENGTH : Resolves(words, i)
     IN  /\ codec.res.valid <=> (allResolve /\ ChecksumAgrees(words))
         /\ (allResolve /\ ~ ChecksumAgrees(words)) =>
              /\ codec.res.error.kind = "checksum"
              /\ codec.res.seed = {}
         /\ codec.res.valid => codec.res.seed # {}

C23_Witness ==
  /\ codec.op = "validatePhrase"
  /\ codec.arg.edit = Edit("set", 15, dictionary[300])
  /\ codec.res.error.kind = "checksum"
  /\ codec.res.error.text = dictionary[300]
  /\ codec.res.seed = {}

\* ---- C24
\* C24: a phrase that splits into n words, n not 15, is refused with the
\* length error that reports n, and no word is looked up.
C24_LengthErrorReportsCount ==
  (codec.op = "validatePhrase" /\ Len(MeantWords(codec.arg)) # PHRASE_LENGTH) =>
     /\ ~ codec.res.valid
     /\ codec.res.error = PhraseError("length", Len(MeantWords(codec.arg)), <<>>)
     /\ codec.res.seed = {}
     /\ codec.res.lookups = 0

C24_Witness ==
  /\ codec.op = "validatePhrase"
  /\ codec.arg.edit.kind = "add"
  /\ codec.res.error = PhraseError("length", 16, <<>>)
  /\ codec.res.lookups = 0

\* ---- C25
\* A prefix the dictionary has only at index 256 or beyond.
LatePrefix(word) == Prefix(word) \in AllPrefixes \ FirstPrefixes

C26_SanitizedAlike ==
  codec.op = "validatePhrase" =>
     LET plain == validatePhrase(Typed([codec.arg EXCEPT !.style = "plain"]))
         sanitized == sanitizePhrase(Typed(codec.arg))
     IN  /\ codec.res.valid = plain.valid
         /\ codec.res.error = plain.error
         /\ codec.res.seed = plain.seed
         /\ sanitizePhrase(sanitized) = sanitized
         /\ sanitized = sanitizePhrase(Typed([codec.arg EXCEPT !.style = "plain"]))

C26_Witness ==
  /\ codec.op = "validatePhrase"
  /\ codec.arg.style = "mixed"
  /\ Typed(codec.arg) # Typed([codec.arg EXCEPT !.style = "plain"])
  /\ codec.res.valid

\* ---- C27
\* Bit k of a byte array, bit 0 being the most significant bit of the first
\* byte; and bit k of the groups of ten bits (eight for the last) the seed
\* words stand for.
ByteBit(bytes, k) == (bytes[(k \div 8) + 1] \div Pow2(7 - (k % 8))) % 2
GroupBit(seedWords, k) ==
  IF k < 120 THEN (seedWords[(k \div 10) + 1] \div Pow2(9 - (k % 10))) % 2
  ELSE (seedWords[13] \div Pow2(127 - k)) % 2
RECURSIVE BitsValue(_, _, _)
BitsValue(bytes, from, n) ==
  IF n = 0 THEN 0 ELSE 2 * BitsValue(bytes, from, n - 1) + ByteBit(bytes, from + n - 1)
Unpacked(bytes) ==
  [i \in 1..SEED_WORDS_LENGTH |-> BitsValue(bytes, 10 * (i - 1), IF i = 13 THEN 8 ELSE 10)]

\* C27: seedWordsToSeed gives 16 bytes whose 128 bits are, from the most
\* significant on, the ten bits of each of the first twelve words and the
\* eight bits of the thirteenth; the loop stands at every output bit once; the
\* words can be read back from the bytes, so different words give different
\* bytes.
C27_PacksBigEndian ==
  codec.op = "seedWordsToSeed" =>
     /\ IsBytes(codec.res.bytes, SEED_LENGTH)
     /\ \A k \in 0..127 : ByteBit(codec.res.bytes, k) = GroupBit(codec.arg, k)
     /\ codec.res.visited = [k \in 1..128 |-> k - 1]
     /\ Unpacked(codec.res.bytes) = codec.arg

C27_Witness ==
  /\ codec.op = "seedWordsToSeed"
  /\ codec.arg[1] = 341 /\ codec.arg[13] = 255
  /\ codec.res.bytes[1] = 85 /\ codec.res.bytes[16] = 255

\* ---- C28
\* C28: hashToChecksumWords gives two values in 0..1023, digest bits 0..9 and
\* digest bits 10..19; bits 20 and beyond do not show in them.
C28_ChecksumWordsAreFirstTwentyBits ==
  codec.op = "hashToChecksumWords" =>
     /\ codec.res[1] \in 0..1023 /\ codec.res[2] \in 0..1023
     /\ codec.res[1] = BitsValue(codec.arg, 0, 10)
     /\ codec.res[2] = BitsValue(codec.arg, 10, 10)

C28_Witness ==
  /\ codec.op = "hashToChecksumWords"
  /\ codec.arg[1] = 85 /\ codec.arg[2] = 255 /\ codec.arg[3] = 170 /\ codec.arg[4] = 255
  /\ codec.res = <<343, 1018>>

\* ---- C21
\* The recipient a posted response carries after the challenge and the type.
SentRecipient(a) ==
  LET t == attempts[a]
      bytes == hexToUint8Array(t.sent[2].response)
  IN  Slice(bytes, CHALLENGE_SIZE + Len(ChallengeType(t.kind)) + 1, Len(bytes))

\* C21: the recipient is the scheme of the portal URL, "://" and the last two
\* labels of its host name (the whole name when it has one label or two), with
\* no slash at the end; getPortalRecipient of the recipient is the recipient.
C21_RecipientIsSchemeAndLastTwoLabels ==
  \A a \in AttemptIds : Posted(a) =>
    LET url == URL(ensureUrl(attempts[a].url))
        labels == Split(url.hostname, 46)
        n == Len(labels)
        expected == url.protocol \o <<47, 47>>
                      \o (IF n <= 2 THEN url.hostname ELSE labels[n - 1] \o <<46>> \o labels[n])
    IN  /\ SentRecipient(a) = expected
        /\ SentRecipient(a)[Len(SentRecipient(a))] # 47
        /\ getPortalRecipient(SentRecipient(a)) = SentRecipient(a)

\* ---- C29
\* The step of MySky.initialize in which checkStoredSeed runs.
InitializeChecksSeed == phase = "start" /\ phase' # "start" /\ host = HostStorage

\* C29: checkStoredSeed returns the stored seed and leaves the key alone when
\* the value parses to SEED_LENGTH bytes (the provider is launched with that
\* seed); returns null for an absent key; and for any other value returns null
\* (no provider is launched) and has removed the key.
C29_CheckStoredSeedClearsMalformed ==
  [][ InitializeChecksSeed =>
        /\ storedSeed \in Seeds =>
             /\ storedSeed' = storedSeed
             /\ \E p \in permissionsProvider' : providers'[p].seed = storedSeed
        /\ storedSeed = Null => storedSeed' = Null /\ permissionsProvider' = {}
        /\ storedSeed \notin Seeds \cup {Null} =>
             storedSeed' = Null /\ permissionsProvider' = {} ]_vars

\* ---- C30
\* C30: in a browser without storage the frame is logged out and nothing
\* fails: initialize does not throw, no seed is read, no provider is launched
\* and the storage stays as it is.
C30_NoStorageMeansLoggedOut ==
  host # HostStorage =>
    /\ phase # "failed"
    /\ CheckStoredSeed(storedSeed) = {}
    /\ storedSeed = Null
    /\ permissionsProvider = {}
    /\ \A c \in CallIds : calls[c].sentTo = <<>>

\* ---- C31
\* The entries among the first `bound` whose word starts with the prefix.
EntriesWithPrefix(prefix, bound) ==
  {j \in 0..(bound - 1) : SubSeq(dictionary[j], 1, 3) = prefix}

\* C31: the scan that stops at the first greater prefix gives the index of
\* the first of the first `bound` entries with the prefix searched, and -1
\* exactly when none of them has it.
C31_EarlyExitScanIsExhaustiveScan ==
  codec.op = "scan" =>
    LET hits == EntriesWithPrefix(codec.arg.prefix, codec.arg.bound)
    IN  IF hits = {} THEN codec.res = -1
        ELSE codec.res \in hits /\ \A j \in hits : codec.res <= j

\* Entry 300 is found in the whole dictionary, past prefixes that are smaller.
C31_Witness ==
  /\ codec.op = "scan"
  /\ codec.arg.prefix = SubSeq(dictionary[300], 1, 3)
  /\ codec.arg.bound = DictionaryLength
  /\ codec.res = 300

\* ---- C32
\* The parent's call c arrives in this step and is a checkLogin.
CheckLoginArrives(c) == calls[c].pc = "idle" /\ calls'[c].op = "checkLogin"

\* The provider's answer to the checkLogin c arrives in this step.
CheckLoginAnswered(c) ==
  calls[c].op = "checkLogin" /\ calls[c].pc = "awaitAnswer" /\ calls'[c].pc = "done"

\* C32: checkLogin(perms) without a well-formed seed in storage returns
\* [false, failedPermissions: perms] and has sent nothing to the provider;
\* with a seed and no provider it fails with 'Permissions provider not
\* loaded'; with a seed and a provider it returns nothing before the
\* provider answered, and then [true, the answer as it came].
C32_CheckLoginAnswers ==
  [][ \A c \in CallIds :
        /\ CheckLoginArrives(c) =>
              IF CheckStoredSeed(storedSeed) = {}
              THEN /\ calls'[c].pc = "done" /\ calls'[c].status = "ok"
                   /\ calls'[c].value = <<FALSE, {Permission(calls'[c].path, Hidden, Read)}>>
                   /\ calls'[c].sentTo = <<>>
              ELSE IF permissionsProvider = {}
              THEN /\ calls'[c].pc = "done" /\ calls'[c].status = "error"
                   /\ calls'[c].error = "Permissions provider not loaded"
                   /\ calls'[c].sentTo = <<>>
              ELSE /\ calls'[c].status # "ok"
                   /\ calls'[c].error # "Permissions provider not loaded"
                   /\ calls'[c].prov = permissionsProvider
        /\ CheckLoginAnswered(c) =>
              LET answer == calls'[c].log[Len(calls'[c].log)]
              IN  /\ answer.ev = "answer"
                  /\ calls'[c].status = "ok"
                  /\ calls'[c].value = <<TRUE, answer.failed>>
        /\ (calls[c].op = "checkLogin" /\ calls[c].pc = "done") => calls'[c] = calls[c] ]_vars

\* A checkLogin returned true with an answer that lists a failed permission
\* it had not asked for.
C32_Witness ==
  \E c \in CallIds :
    /\ calls[c].op = "checkLogin" /\ calls[c].pc = "done"
    /\ calls[c].value = <<TRUE, {OtherPerm}>>
    /\ Len(calls[c].sentTo) = 1

\* ---- C33
\* C33: the bit-by-bit hashToChecksum and the shift-and-mask
\* hashToChecksumWords give the same two checksum words for every digest.
C33_ChecksumSchemesAgree ==
  codec.op = "hashToChecksum" =>
    /\ Len(codec.res) = CHECKSUM_WORDS_LENGTH
    /\ codec.res = hashToChecksumWords(codec.arg)

\* A digest whose first twenty bits are 0101 0101 1111 1111 1010.
C33_Witness ==
  /\ codec.op = "hashToChecksum"
  /\ codec.arg[1] = 85 /\ codec.arg[2] = 255 /\ codec.arg[3] = 170
  /\ codec.res = <<343, 1018>>

\* ---- C34
\* The login requests (GET /api/login?pubKey=...) the portal receives in this
\* step.
NewLoginGets ==
  {portal'[i] : i \in {k \in (Len(portal) + 1)..Len(portal') : portal'[k].kind = "loginGET"}}

\* C34: a re-login of the interceptor uses the keys of the seed that is in
\* storage when it is made: never those of a seed that was replaced, removed
\* or cleared by logout.
C34_ReloginUsesStoredSeed ==
  [][ \A get \in NewLoginGets :
        /\ storedSeed' \in Seeds
        /\ \E email \in Emails :
              get.pubKey = PublicKey(genPortalLoginKeypair(storedSeed', email)) ]_vars

\* ---- C35
\* C35: a request sent through the interceptor starts at most one re-login,
\* and when the portal answers 401 to the request and to the GET of the
\* re-login, nothing more is sent and the caller gets the 401.
C35_ReloginIsNotNested ==
  LET app == threads["app"]
      gets == {i \in 1..Len(app.sent) : app.sent[i].kind = "loginGET"}
  IN  /\ Cardinality(gets) <= 1
      /\ (Len(app.replies) >= 2 /\ app.replies[1] = 401 /\ app.replies[2] = 401) =>
            /\ app.pc = "done" /\ app.status = "error" /\ app.code = 401
            /\ Len(app.sent) = 2

\* ---- C36
\* logout() has finished and the seed key was not written since it started.
LoggedOut(t, w) == t["logout"].pc = "done" /\ w = t["logout"].writesAtStart

\* C36: after logout has finished and until a seed is written, a call of
\* userID, signMessage, getEncryptedPathSeed, signRegistryEntry or
\* signEncryptedRegistryEntry that ends, ends with an error and without a
\* key, signature or path seed; a checkLogin that arrives returns false; and
\* storage holds no seed.
C36_NothingSignedAfterLogout ==
  [][ LoggedOut(threads', writes') =>
        /\ CheckStoredSeed(storedSeed') = {}
        /\ \A c \in CallIds :
              /\ (calls[c].pc # "done" /\ calls'[c].pc = "done" /\ calls'[c].op # "checkLogin") =>
                    calls'[c].status = "error" /\ calls'[c].value = <<>>
              /\ CheckLoginArrives(c) =>
                    /\ calls'[c].pc = "done" /\ calls'[c].status = "ok"
                    /\ calls'[c].value[1] = FALSE ]_vars

\* userID returned the public key of S1; logout found the seed and cleared
\* it; a signRegistryEntry call whose permission was granted failed for want
\* of a seed.
C36_Witness ==
  /\ LoggedOut(threads, writes)
  /\ threads["logout"].hadSeed
  /\ calls[1].op = "userID" /\ calls[1].value = PublicKey(genKeyPairFromSeed("S1"))
  /\ calls[2].op = "signRegistryEntry" /\ calls[2].error = "User seed not found"
  /\ \E i \in 1..Len(calls[2].log) : calls[2].log[i].ev = "answer" /\ calls[2].log[i].failed = {}

\* ---- C37
\* The provider's answer to call c arrives in this step and grants what the
\* call asked.
GrantedNow(c) ==
  /\ calls[c].op \in {"getEncryptedPathSeed", "signRegistryEntry", "signEncryptedRegistryEntry"}
  /\ calls[c].pc = "awaitAnswer"
  /\ Len(calls'[c].log) > Len(calls[c].log)
  /\ calls'[c].log[Len(calls[c].log) + 1] = Event("answer", calls[c].perm, {})

\* C37: a signing or path-seed call uses the seed that is in storage when its
\* permission check completes: when there is none then (logout cleared it
\* while the call waited), the call fails with 'User seed not found' and
\* returns nothing; and what a call returns is derived from the seed in
\* storage at that moment, never from one cleared or replaced before.
C37_InFlightCallReadsSeedAfterCheck ==
  [][ \A c \in CallIds :
        /\ (GrantedNow(c) /\ CheckStoredSeed(storedSeed) = {}) =>
              /\ calls'[c].pc = "done" /\ calls'[c].status = "error"
              /\ calls'[c].error = "User seed not found"
              /\ calls'[c].value = <<>>
        /\ ( /\ calls[c].pc # "done" /\ calls'[c].pc = "done" /\ calls'[c].status = "ok"
             /\ calls'[c].op \notin {"checkLogin", "userID", "signMessage"} ) =>
              /\ GrantedNow(c)
              /\ storedSeed \in Seeds
              /\ calls'[c].value =
                    IF calls'[c].op = "getEncryptedPathSeed"
                    THEN PathSeed(storedSeed, calls'[c].path, calls'[c].isDirectory)
                    ELSE signEntry(storedSeed, calls'[c].dataKey) ]_vars

\* The seed key was S1 from the start and never written; call 1, a
\* signRegistryEntry, arrived before call 2, a userID that found the seed;
\* logout cleared the seed; call 1 was granted its permission and failed for
\* want of a seed.
C37_Witness ==
  /\ writes = 0
  /\ threads["logout"].hadSeed
  /\ calls[1].op = "signRegistryEntry" /\ calls[1].pc = "done"
  /\ calls[1].error = "User seed not found" /\ calls[1].value = <<>>
  /\ calls[2].op = "userID" /\ calls[2].status = "ok"


\* C38: when runSeedProviderDisplay has settled (resolved with the seed, or
\* rejected by a window error or close, also one that comes during the launch
\* or the handshake), the iframe it created is removed, the connection it
\* created is closed and the error listeners are cleaned up: no frame or
\* connection of the call is left open.
C38_SettledDisplayIsCleanedUp ==
  \A d \in DisplayIds :
    display[d].settled # "pending"
      => /\ display[d].seedFrame # "attached"
         /\ display[d].seedConnection # "open"
         /\ display[d].listeners = "cleaned"

\* C39: the seed getRootSeed hands to the parent is the seed of a phrase that
\* passed validatePhrase: readySeed is only ever the seed validatePhrase gave
\* for the text it was made from, so signIn with no text or an invalid phrase
\* and signUp with a phrase that fails validation do not set it, and
\* getRootSeed resolves only with a ready seed that was set.
C39_HandedSeedIsOfValidPhrase ==
  /\ seedPage.ready
       => /\ validatePhrase(seedPage.phrase).valid
          /\ seedPage.readySeed # {}
          /\ validatePhrase(seedPage.phrase).seed = seedPage.readySeed
  /\ seedPage.last \in {"alert", "thrown"} /\ seedPage.seeds = 0 => ~ seedPage.ready
  /\ seedPage.getRootSeed = "resolved"
       => /\ validatePhrase(seedPage.handedPhrase).valid
          /\ seedPage.handed # {}
          /\ validatePhrase(seedPage.handedPhrase).seed = seedPage.handed
  /\ seedPage.getRootSeed # "resolved" => seedPage.handed = {}

\* The UI was handed the seed of a phrase typed in capitals with doubled
\* blanks or padding, after getRootSeed had been polling.
C39_Witness ==
  /\ seedPage.getRootSeed = "resolved"
  /\ seedPage.handed # {}
  /\ seedPage.handedPhrase # sanitizePhrase(seedPage.handedPhrase)

====
